---- MODULE Spec2Model ----
(***************************************************************************)
(* Model of the router SDK: construction of a MixedRouteSDK, its memoised  *)
(* mid price, the division of a mixed route into consecutive sections,    *)
(* the packed path of a route, the encoding of V2, V3 and mixed-route     *)
(* trades by SwapRouter.encodeSwaps and SwapRouter.swapCallParameters,    *)
(* the aggregated Trade (fromRoutes, slippage bounds, execution prices),  *)
(* and the checks and exact-input calls of encodeRemoveAndSwap.           *)
(***************************************************************************)
EXTENDS Integers, Sequences, FiniteSets, TLC

\* ------------------------------------------------------------------------
\* Bounds of the model
\* ------------------------------------------------------------------------
MaxPools == 3

MaxAccess == 3

\* cap on the sections collected by a scan that does not advance
MaxSections == 5

\* ------------------------------------------------------------------------
\* Currencies (sdk-core Token / Ether as used by the route)
\* ------------------------------------------------------------------------
Token(c, a) == [isNative |-> FALSE, chainId |-> c, address |-> a]

Ether(c) == [isNative |-> TRUE, chainId |-> c, address |-> 0]

token0 == Token(1, 1)

token1 == Token(1, 2)

weth == Token(1, 3)

ETHER == Ether(1)

\* tokens of another chain, only used to build a pool on that chain
other0 == Token(2, 1)

other1 == Token(2, 2)

\* currency.wrapped
Wrapped(c) == IF c.isNative THEN Token(c.chainId, 3) ELSE c

\* token.equals(other)
Equals(a, b) ==
  IF a.isNative THEN b.isNative /\ a.chainId = b.chainId
  ELSE ~b.isNative /\ a.chainId = b.chainId /\ a.address = b.address

Currencies == {token0, token1, weth, ETHER}

\* ------------------------------------------------------------------------
\* Pools: Pair (constant product), Pool (concentrated liquidity) and an
\* object of neither class
\* ------------------------------------------------------------------------
MkPair(id, t0, t1, r0, r1) ==
  [id |-> id, kind |-> "Pair", token0 |-> t0, token1 |-> t1, fee |-> 0,
   reserve0 |-> r0, reserve1 |-> r1, priceNum |-> 0, priceDen |-> 0]

\* token0Price of a Pool is priceNum / priceDen
MkPool(id, t0, t1, fee, num, den) ==
  [id |-> id, kind |-> "Pool", token0 |-> t0, token1 |-> t1, fee |-> fee,
   reserve0 |-> 0, reserve1 |-> 0, priceNum |-> num, priceDen |-> den]

MkOther(id, t0, t1) ==
  [id |-> id, kind |-> "Other", token0 |-> t0, token1 |-> t1, fee |-> 0,
   reserve0 |-> 0, reserve1 |-> 0, priceNum |-> 0, priceDen |-> 0]

pool_0_1 == MkPool("pool_0_1", token0, token1, 3000, 1, 5)

pool_0_1_low == MkPool("pool_0_1_low", token0, token1, 500, 2, 11)

pool_0_weth == MkPool("pool_0_weth", token0, weth, 3000, 3, 1)

pool_1_weth == MkPool("pool_1_weth", token1, weth, 3000, 1, 7)

pair_0_1 == MkPair("pair_0_1", token0, token1, 100, 200)

pair_0_weth == MkPair("pair_0_weth", token0, weth, 100, 100)

pair_1_weth == MkPair("pair_1_weth", token1, weth, 175, 100)

pool_other_chain == MkPool("pool_other_chain", other0, other1, 3000, 1, 1)

unknown_0_1 == MkOther("unknown_0_1", token0, token1)

AllPools ==
  {pool_0_1, pool_0_1_low, pool_0_weth, pool_1_weth, pair_0_1, pair_0_weth,
   pair_1_weth, pool_other_chain, unknown_0_1}

\* pool.chainId
ChainIdOf(p) == p.token0.chainId

\* pool.involvesToken(token)
InvolvesToken(p, t) == Equals(t, p.token0) \/ Equals(t, p.token1)

PoolSeqs == UNION {[1..n -> AllPools] : n \in 0..MaxPools}

\* ------------------------------------------------------------------------
\* MixedRouteSDK constructor
\* ------------------------------------------------------------------------
NoRoute == [pools |-> <<>>, path |-> <<>>, input |-> ETHER, output |-> ETHER,
            valid |-> FALSE]

\* a walk that never normalises the token order: the next token is always
\* token1
RECURSIVE TokenPathToken1(_, _, _)
TokenPathToken1(ps, wrappedInput, n) ==
  IF n = 0 THEN <<wrappedInput>>
  ELSE LET prev == TokenPathToken1(ps, wrappedInput, n - 1) IN
       IF prev = <<>> THEN <<>>
       ELSE IF ~InvolvesToken(ps[n], prev[n]) THEN <<>>
       ELSE Append(prev, ps[n].token1)

\* the normalisation loop: tokenPath after the first n pools, or <<>> when
\* the PATH invariant fails on the way
RECURSIVE TokenPath(_, _, _)
TokenPath(ps, wrappedInput, n) ==
  IF n = 0 THEN <<wrappedInput>>
  ELSE LET prev == TokenPath(ps, wrappedInput, n - 1) IN
       IF prev = <<>> THEN <<>>
       ELSE LET currentInputToken == prev[n]
                pool == ps[n] IN
            IF ~(Equals(currentInputToken, pool.token0)
                 \/ Equals(currentInputToken, pool.token1))
            THEN <<>>
            ELSE Append(prev, IF Equals(currentInputToken, pool.token0)
                              THEN pool.token1 ELSE pool.token0)

\* a constructor that forgets the check of the last pool against the output
ConstructorErrorNoOutput(ps, inp, out) ==
  IF ~(Len(ps) > 0) THEN "POOLS"
  ELSE IF ~(\A i \in 1..Len(ps) : ChainIdOf(ps[i]) = ChainIdOf(ps[1]))
       THEN "CHAIN_IDS"
  ELSE IF ~InvolvesToken(ps[1], Wrapped(inp)) THEN "INPUT"
  ELSE IF TokenPath(ps, Wrapped(inp), Len(ps)) = <<>> THEN "PATH"
  ELSE "none"

\* the message of the first invariant of the constructor that fails
ConstructorError(ps, inp, out) ==
  IF ~(Len(ps) > 0) THEN "POOLS"
  ELSE IF ~(\A i \in 1..Len(ps) : ChainIdOf(ps[i]) = ChainIdOf(ps[1]))
       THEN "CHAIN_IDS"
  ELSE IF ~InvolvesToken(ps[1], Wrapped(inp)) THEN "INPUT"
  ELSE IF ~InvolvesToken(ps[Len(ps)], Wrapped(out)) THEN "OUTPUT"
  ELSE IF TokenPath(ps, Wrapped(inp), Len(ps)) = <<>> THEN "PATH"
  ELSE "none"

NewMixedRouteSDK(ps, inp, out) ==
  IF ConstructorError(ps, inp, out) # "none" THEN NoRoute
  ELSE [pools |-> ps, path |-> TokenPath(ps, Wrapped(inp), Len(ps)),
        input |-> inp, output |-> out, valid |-> TRUE]

\* ------------------------------------------------------------------------
\* Prices (sdk-core Price) and the midPrice getter
\* ------------------------------------------------------------------------
\* new Price(baseCurrency, quoteCurrency, denominator, numerator)
NewPrice(base, quote, denominator, numerator) ==
  [baseCurrency |-> base, quoteCurrency |-> quote,
   numerator |-> numerator, denominator |-> denominator, err |-> "none"]

PriceError(msg) ==
  [baseCurrency |-> ETHER, quoteCurrency |-> ETHER,
   numerator |-> 0, denominator |-> 0, err |-> msg]

\* price.multiply(other)
Multiply(p, q) ==
  IF p.err # "none" THEN p
  ELSE IF q.err # "none" THEN q
  ELSE IF ~Equals(p.quoteCurrency, q.baseCurrency) THEN PriceError("TOKEN")
  ELSE NewPrice(p.baseCurrency, q.quoteCurrency,
                p.denominator * q.denominator, p.numerator * q.numerator)

\* a price lookup that ignores the direction of the hop
GetPriceForPoolOneWay(pool, nextInputIsToken0) ==
  IF pool.kind = "Pair"
  THEN NewPrice(pool.token0, pool.token1, pool.reserve0, pool.reserve1)
  ELSE IF pool.kind = "Pool"
  THEN NewPrice(pool.token0, pool.token1, pool.priceDen, pool.priceNum)
  ELSE PriceError("Invalid pool type in mixed route")

GetPriceForPool(pool, nextInputIsToken0) ==
  IF pool.kind = "Pair"
  THEN IF nextInputIsToken0
       THEN NewPrice(pool.token0, pool.token1, pool.reserve0, pool.reserve1)
       ELSE NewPrice(pool.token1, pool.token0, pool.reserve1, pool.reserve0)
  ELSE IF pool.kind = "Pool"
  THEN IF nextInputIsToken0
       THEN NewPrice(pool.token0, pool.token1, pool.priceDen, pool.priceNum)
       ELSE NewPrice(pool.token1, pool.token0, pool.priceNum, pool.priceDen)
  ELSE PriceError("Invalid pool type in mixed route")

\* the reduce over pools.slice(1), with its initial value from pools[0]
RECURSIVE PriceFold(_, _)
PriceFold(r, n) ==
  IF n = 1
  THEN IF Equals(r.pools[1].token0, Wrapped(r.input))
       THEN [nextInput |-> r.pools[1].token1,
             price |-> GetPriceForPool(r.pools[1], TRUE)]
       ELSE [nextInput |-> r.pools[1].token0,
             price |-> GetPriceForPool(r.pools[1], FALSE)]
  ELSE LET acc == PriceFold(r, n - 1)
           pool == r.pools[n] IN
       IF Equals(acc.nextInput, pool.token0)
       THEN [nextInput |-> pool.token1,
             price |-> Multiply(acc.price, GetPriceForPool(pool, TRUE))]
       ELSE [nextInput |-> pool.token0,
             price |-> Multiply(acc.price, GetPriceForPool(pool, FALSE))]

NoPrice == [id |-> 0, baseCurrency |-> ETHER, quoteCurrency |-> ETHER,
            numerator |-> 0, denominator |-> 0]

\* the instance built by the last line of the getter; id is its identity
MidPriceInstance(r, id) ==
  LET price == PriceFold(r, Len(r.pools)).price
      fresh == NewPrice(r.input, r.output, price.denominator, price.numerator) IN
  [id |-> id, baseCurrency |-> fresh.baseCurrency,
   quoteCurrency |-> fresh.quoteCurrency,
   numerator |-> fresh.numerator, denominator |-> fresh.denominator]

\* a getter that never looks at the cache
MidPriceGetNoCache(r, cache, count) ==
  LET price == PriceFold(r, Len(r.pools)).price IN
  IF price.err # "none"
  THEN [value |-> NoPrice, cache |-> cache, count |-> count, err |-> price.err]
  ELSE [value |-> MidPriceInstance(r, count + 1),
        cache |-> MidPriceInstance(r, count + 1),
        count |-> count + 1, err |-> "none"]

\* get midPrice(): the value returned, the new _midPrice, the number of
\* instances built so far and the error thrown
MidPriceGet(r, cache, count) ==
  IF cache # NoPrice
  THEN [value |-> cache, cache |-> cache, count |-> count, err |-> "none"]
  ELSE LET price == PriceFold(r, Len(r.pools)).price IN
       IF price.err # "none"
       THEN [value |-> NoPrice, cache |-> cache, count |-> count,
             err |-> price.err]
       ELSE [value |-> MidPriceInstance(r, count + 1),
             cache |-> MidPriceInstance(r, count + 1),
             count |-> count + 1, err |-> "none"]

\* ------------------------------------------------------------------------
\* divideMixedRouteIntoConsecutiveSections
\* ------------------------------------------------------------------------
\* pools[j] instanceof Pool / Pair (j counts from 0; past the end the value
\* is undefined and an instance of nothing)
InstanceOf(ps, j, class) == j < Len(ps) /\ ps[j + 1].kind = class

\* a seek that stops after one pool
SeekForwardOne(ps, j, class) ==
  IF InstanceOf(ps, j, class) THEN j + 1 ELSE j

\* the inner while loop: the value of j when it exits
RECURSIVE SeekForward(_, _, _)
SeekForward(ps, j, class) ==
  IF ~InstanceOf(ps, j, class) THEN j
  ELSE IF j + 1 = Len(ps) THEN j + 1
  ELSE SeekForward(ps, j + 1, class)

\* a pass that pushes each pool after the increment of j and so misses the
\* pool that opened the section
SectionFromAfterIncrement(ps, j) ==
  LET class == IF InstanceOf(ps, j, "Pool") THEN "Pool" ELSE "Pair"
      k == SeekForward(ps, j, class) IN
  [section |-> SubSeq(ps, j + 2, k), j |-> k]

\* one pass of the outer while loop from j: the section pushed and the new j
SectionFrom(ps, j) ==
  LET class == IF InstanceOf(ps, j, "Pool") THEN "Pool" ELSE "Pair"
      k == SeekForward(ps, j, class) IN
  [section |-> SubSeq(ps, j + 1, k), j |-> k]

\* the scan inlined in encodeMixedRouteSwap, run to its end from j; a pass
\* that leaves j where it was is repeated for ever and the call never
\* returns, which is reported as diverges
RECURSIVE DivideAll(_, _, _)
DivideAll(ps, j0, acc0) ==
  IF ~(j0 < Len(ps)) THEN [acc |-> acc0, diverges |-> FALSE]
  ELSE LET s == SectionFrom(ps, j0) IN
       IF s.j = j0 THEN [acc |-> Append(acc0, s.section), diverges |-> TRUE]
       ELSE DivideAll(ps, s.j, Append(acc0, s.section))

\* ------------------------------------------------------------------------
\* Path encoding
\* ------------------------------------------------------------------------
V2_FEE_PATH_PLACEHOLDER == 8388608

\* pack(types, values): the packed tuple, element by element
Pack(types, values) == [i \in 1..Len(values) |-> <<types[i], values[i]>>]

Reverse(q) == [i \in 1..Len(q) |-> q[Len(q) + 1 - i]]

\* a reduce that never normalises the token order: the output of a hop is
\* always token1
RECURSIVE PathFoldToken1(_, _)
PathFoldToken1(r, n) ==
  IF n = 0 THEN [inputToken |-> Wrapped(r.input), path |-> <<>>, types |-> <<>>]
  ELSE LET prev == PathFoldToken1(r, n - 1)
           pool == r.pools[n]
           outputToken == pool.token1
           fee == IF pool.kind = "Pool" THEN pool.fee
                  ELSE V2_FEE_PATH_PLACEHOLDER IN
       IF n = 1
       THEN [inputToken |-> outputToken,
             types |-> <<"address", "uint24", "address">>,
             path |-> <<prev.inputToken.address, fee, outputToken.address>>]
       ELSE [inputToken |-> outputToken,
             types |-> prev.types \o <<"uint24", "address">>,
             path |-> prev.path \o <<fee, outputToken.address>>]

\* the reduce of encodeMixedRouteToPath over the first n pools
RECURSIVE PathFold(_, _)
PathFold(r, n) ==
  IF n = 0 THEN [inputToken |-> Wrapped(r.input), path |-> <<>>, types |-> <<>>]
  ELSE LET prev == PathFold(r, n - 1)
           pool == r.pools[n]
           outputToken == IF Equals(pool.token0, prev.inputToken)
                          THEN pool.token1 ELSE pool.token0
           fee == IF pool.kind = "Pool" THEN pool.fee
                  ELSE V2_FEE_PATH_PLACEHOLDER IN
       IF n = 1
       THEN [inputToken |-> outputToken,
             types |-> <<"address", "uint24", "address">>,
             path |-> <<prev.inputToken.address, fee, outputToken.address>>]
       ELSE [inputToken |-> outputToken,
             types |-> prev.types \o <<"uint24", "address">>,
             path |-> prev.path \o <<fee, outputToken.address>>]

\* an encoder that ignores exactOutput
EncodeMixedRouteToPathForward(r, exactOutput) ==
  LET f == PathFold(r, Len(r.pools)) IN Pack(f.types, f.path)

EncodeMixedRouteToPath(r, exactOutput) ==
  LET f == PathFold(r, Len(r.pools)) IN
  IF exactOutput THEN Pack(Reverse(f.types), Reverse(f.path))
  ELSE Pack(f.types, f.path)

\* the reduce of utils/encodeRouteToPath over the first n parts of the
\* route, whose placeholder for a pair is 0
RECURSIVE PartsFold(_, _)
PartsFold(r, n) ==
  IF n = 0 THEN [inputToken |-> Wrapped(r.input), path |-> <<>>, types |-> <<>>]
  ELSE LET prev == PartsFold(r, n - 1)
           part == r.pools[n]
           outputToken == IF Equals(part.token0, prev.inputToken)
                          THEN part.token1 ELSE part.token0
           fee == IF part.kind = "Pool" THEN part.fee ELSE 0 IN
       IF n = 1
       THEN [inputToken |-> outputToken,
             types |-> <<"address", "uint24", "address">>,
             path |-> <<prev.inputToken.address, fee, outputToken.address>>]
       ELSE [inputToken |-> outputToken,
             types |-> prev.types \o <<"uint24", "address">>,
             path |-> prev.path \o <<fee, outputToken.address>>]

EncodePartsToPath(r, exactOutput) ==
  LET f == PartsFold(r, Len(r.pools)) IN
  IF exactOutput THEN Pack(Reverse(f.types), Reverse(f.path))
  ELSE Pack(f.types, f.path)

\* no path has been packed yet
NotPacked == <<>>

\* ------------------------------------------------------------------------
\* Amount bounds of a trade
\* ------------------------------------------------------------------------
Percent(n, d) == [num |-> n, den |-> d]

\* trade.maximumAmountIn(slippageTolerance, amountIn)
MaximumAmountIn(tradeType, tol, amountIn) ==
  IF tradeType = "EXACT_INPUT" THEN amountIn
  ELSE (amountIn * (tol.den + tol.num)) \div tol.den

\* trade.minimumAmountOut(slippageTolerance, amountOut)
MinimumAmountOut(tradeType, tol, amountOut) ==
  IF tradeType = "EXACT_OUTPUT" THEN amountOut
  ELSE (amountOut * tol.den) \div (tol.den + tol.num)

\* ------------------------------------------------------------------------
\* SwapRouter.encodeMixedRouteSwap
\* ------------------------------------------------------------------------
ADDRESS_THIS == "ADDRESS_THIS"

MSG_SENDER == "MSG_SENDER"

Undefined == "undefined"

\* getOutputOfSection(section, firstInputToken), over the first n pools
RECURSIVE GetOutputOfSection(_, _, _)
GetOutputOfSection(section, firstInputToken, n) ==
  IF n = 0 THEN firstInputToken
  ELSE LET inputToken == GetOutputOfSection(section, firstInputToken, n - 1)
           pool == section[n] IN
       IF Equals(pool.token0, inputToken) THEN pool.token1 ELSE pool.token0

\* the input handed to the route of a section: the side of its first pool
\* that is not the output of the section
SectionInput(section, outputToken) ==
  IF Equals(section[1].token0, outputToken)
  THEN section[1].token1 ELSE section[1].token0

\* mixedRouteIsAllV3(route)
MixedRouteIsAllV3(r) == \A i \in 1..Len(r.pools) : r.pools[i].kind = "Pool"

TokenAddresses(path) == [i \in 1..Len(path) |-> path[i].address]

\* a section encoder that reverses the path as for an exact-output swap
SectionCallReversed(newRoute, i, last, amountIn, amountOut, recipient) ==
  IF MixedRouteIsAllV3(newRoute)
  THEN [method |-> "exactInput",
        path |-> EncodeMixedRouteToPath(newRoute, TRUE),
        recipient |-> IF last THEN recipient ELSE ADDRESS_THIS,
        amountIn |-> IF i = 1 THEN amountIn ELSE 0,
        amountOutMinimum |-> IF ~last THEN 0 ELSE amountOut]
  ELSE [method |-> "swapExactTokensForTokens",
        path |-> Reverse(TokenAddresses(newRoute.path)),
        recipient |-> IF last THEN recipient ELSE ADDRESS_THIS,
        amountIn |-> IF i = 1 THEN amountIn ELSE 0,
        amountOutMinimum |-> IF ~last THEN 0 ELSE amountOut]

\* the calldata pushed for section i of acc, built on newRoute
SectionCall(newRoute, i, last, amountIn, amountOut, recipient) ==
  IF MixedRouteIsAllV3(newRoute)
  THEN [method |-> "exactInput",
        path |-> EncodeMixedRouteToPath(newRoute, FALSE),
        recipient |-> IF last THEN recipient ELSE ADDRESS_THIS,
        amountIn |-> IF i = 1 THEN amountIn ELSE 0,
        amountOutMinimum |-> IF ~last THEN 0 ELSE amountOut]
  ELSE [method |-> "swapExactTokensForTokens",
        path |-> TokenAddresses(newRoute.path),
        recipient |-> IF last THEN recipient ELSE ADDRESS_THIS,
        amountIn |-> IF i = 1 THEN amountIn ELSE 0,
        amountOutMinimum |-> IF ~last THEN 0 ELSE amountOut]

\* the for loop over acc, after its first n sections: the calldatas pushed,
\* the routes built for them, the running outputToken and the error thrown
RECURSIVE EncodeSections(_, _, _, _, _, _)
EncodeSections(sections, firstInputToken, n, amountIn, amountOut, recipient) ==
  IF n = 0
  THEN [calldatas |-> <<>>, routes |-> <<>>, outputToken |-> firstInputToken,
        err |-> "none"]
  ELSE LET prev == EncodeSections(sections, firstInputToken, n - 1,
                                  amountIn, amountOut, recipient) IN
       IF prev.err # "none" THEN prev
       ELSE LET section == sections[n]
                outputToken == GetOutputOfSection(section, prev.outputToken,
                                                  Len(section))
                inputToken == SectionInput(section, outputToken)
                e == ConstructorError(section, inputToken, outputToken)
                newRoute == NewMixedRouteSDK(section, inputToken, outputToken) IN
            IF e # "none"
            THEN [calldatas |-> <<>>, routes |-> <<>>,
                  outputToken |-> outputToken, err |-> e]
            ELSE [calldatas |->
                    Append(prev.calldatas,
                           SectionCall(newRoute, n, n = Len(sections),
                                       amountIn, amountOut, recipient)),
                  routes |-> Append(prev.routes, newRoute),
                  outputToken |-> outputToken, err |-> "none"]

\* an encoder whose single-hop branch passes and pushes nothing
EncodeMixedRouteSwapSingleHopSilent(r, c) ==
  LET amountIn == MaximumAmountIn(c.tradeType, c.slippageTolerance, c.inputAmount)
      amountOut == MinimumAmountOut(c.tradeType, c.slippageTolerance, c.outputAmount)
      singleHop == Len(r.pools) = 1
      recipient == IF c.recipient = Undefined THEN MSG_SENDER
                   ELSE c.recipient
      d == DivideAll(r.pools, 0, <<>>) IN
  IF c.tradeType # "EXACT_INPUT"
  THEN [calldatas |-> <<>>, routes |-> <<>>,
        err |-> "Mixed route trades must be exact input trades"]
  ELSE IF singleHop
  THEN [calldatas |-> <<>>, routes |-> <<>>, err |-> "none"]
  ELSE IF d.diverges
  THEN [calldatas |-> <<>>, routes |-> <<>>, err |-> "diverges"]
  ELSE LET e == EncodeSections(d.acc, Wrapped(r.input), Len(d.acc),
                               amountIn, amountOut, recipient) IN
       [calldatas |-> e.calldatas, routes |-> e.routes, err |-> e.err]

\* encodeMixedRouteSwap(trade, options) for a trade of one swap over r
EncodeMixedRouteSwap(r, c) ==
  LET amountIn == MaximumAmountIn(c.tradeType, c.slippageTolerance, c.inputAmount)
      amountOut == MinimumAmountOut(c.tradeType, c.slippageTolerance, c.outputAmount)
      singleHop == Len(r.pools) = 1
      recipient == IF c.recipient = Undefined THEN MSG_SENDER
                   ELSE c.recipient
      d == DivideAll(r.pools, 0, <<>>) IN
  IF c.tradeType # "EXACT_INPUT"
  THEN [calldatas |-> <<>>, routes |-> <<>>,
        err |-> "Mixed route trades must be exact input trades"]
  ELSE IF singleHop
  THEN [calldatas |-> <<>>, routes |-> <<>>,
        err |-> "MixedRouteSDK does not support single hop swaps"]
  ELSE IF d.diverges
  THEN [calldatas |-> <<>>, routes |-> <<>>, err |-> "diverges"]
  ELSE LET e == EncodeSections(d.acc, Wrapped(r.input), Len(d.acc),
                               amountIn, amountOut, recipient) IN
       [calldatas |-> e.calldatas, routes |-> e.routes, err |-> e.err]

\* ------------------------------------------------------------------------
\* SwapRouter.encodeV2Swap and SwapRouter.encodeV3Swap, for a trade of one
\* swap over the route r (a V2 route when all its pools are pairs, a V3
\* route when all are concentrated-liquidity pools)
\* ------------------------------------------------------------------------
\* a recipient that is never the router
RecipientOfNoCustody(c, routerMustCustody) ==
  IF c.recipient = Undefined THEN MSG_SENDER ELSE c.recipient

RecipientOf(c, routerMustCustody) ==
  IF routerMustCustody THEN ADDRESS_THIS
  ELSE IF c.recipient = Undefined THEN MSG_SENDER
  ELSE c.recipient

\* encodeRouteToPath(route, exactOutput) on a route of concentrated-
\* liquidity pools
EncodeRouteToPath(r, exactOutput) == EncodeMixedRouteToPath(r, exactOutput)

EncodeV2Swap(r, c, routerMustCustody, performAggregatedSlippageCheck) ==
  LET amountIn == MaximumAmountIn(c.tradeType, c.slippageTolerance, c.inputAmount)
      amountOut == MinimumAmountOut(c.tradeType, c.slippageTolerance, c.outputAmount)
      path == TokenAddresses(r.path)
      recipient == RecipientOf(c, routerMustCustody) IN
  IF c.tradeType = "EXACT_INPUT"
  THEN [method |-> "swapExactTokensForTokens",
        amountIn |-> amountIn,
        amountOutMinimum |-> IF performAggregatedSlippageCheck THEN 0
                             ELSE amountOut,
        path |-> path, recipient |-> recipient]
  ELSE [method |-> "swapTokensForExactTokens",
        amountOut |-> amountOut, amountInMaximum |-> amountIn,
        path |-> path, recipient |-> recipient]

\* an encoder that keeps the bound of each leg under the aggregated check
EncodeV3SwapKeepsBound(r, c, routerMustCustody, performAggregatedSlippageCheck) ==
  LET amountIn == MaximumAmountIn(c.tradeType, c.slippageTolerance, c.inputAmount)
      amountOut == MinimumAmountOut(c.tradeType, c.slippageTolerance, c.outputAmount)
      recipient == RecipientOf(c, routerMustCustody) IN
  IF Len(r.pools) = 1
  THEN IF c.tradeType = "EXACT_INPUT"
       THEN [method |-> "exactInputSingle",
             tokenIn |-> r.path[1].address, tokenOut |-> r.path[2].address,
             fee |-> r.pools[1].fee, recipient |-> recipient,
             amountIn |-> amountIn, amountOutMinimum |-> amountOut,
             sqrtPriceLimitX96 |-> 0]
       ELSE [method |-> "exactOutputSingle",
             tokenIn |-> r.path[1].address, tokenOut |-> r.path[2].address,
             fee |-> r.pools[1].fee, recipient |-> recipient,
             amountOut |-> amountOut, amountInMaximum |-> amountIn,
             sqrtPriceLimitX96 |-> 0]
  ELSE IF c.tradeType = "EXACT_INPUT"
       THEN [method |-> "exactInput",
             path |-> EncodeRouteToPath(r, FALSE), recipient |-> recipient,
             amountIn |-> amountIn, amountOutMinimum |-> amountOut]
       ELSE [method |-> "exactOutput",
             path |-> EncodeRouteToPath(r, TRUE), recipient |-> recipient,
             amountOut |-> amountOut, amountInMaximum |-> amountIn]

\* the calldata pushed for the one swap of the trade
EncodeV3Swap(r, c, routerMustCustody, performAggregatedSlippageCheck) ==
  LET amountIn == MaximumAmountIn(c.tradeType, c.slippageTolerance, c.inputAmount)
      amountOut == MinimumAmountOut(c.tradeType, c.slippageTolerance, c.outputAmount)
      recipient == RecipientOf(c, routerMustCustody) IN
  IF Len(r.pools) = 1
  THEN IF c.tradeType = "EXACT_INPUT"
       THEN [method |-> "exactInputSingle",
             tokenIn |-> r.path[1].address, tokenOut |-> r.path[2].address,
             fee |-> r.pools[1].fee, recipient |-> recipient,
             amountIn |-> amountIn,
             amountOutMinimum |-> IF performAggregatedSlippageCheck THEN 0
                                  ELSE amountOut,
             sqrtPriceLimitX96 |-> 0]
       ELSE [method |-> "exactOutputSingle",
             tokenIn |-> r.path[1].address, tokenOut |-> r.path[2].address,
             fee |-> r.pools[1].fee, recipient |-> recipient,
             amountOut |-> amountOut, amountInMaximum |-> amountIn,
             sqrtPriceLimitX96 |-> 0]
  ELSE IF c.tradeType = "EXACT_INPUT"
       THEN [method |-> "exactInput",
             path |-> EncodeRouteToPath(r, FALSE), recipient |-> recipient,
             amountIn |-> amountIn,
             amountOutMinimum |-> IF performAggregatedSlippageCheck THEN 0
                                  ELSE amountOut]
       ELSE [method |-> "exactOutput",
             path |-> EncodeRouteToPath(r, TRUE), recipient |-> recipient,
             amountOut |-> amountOut, amountInMaximum |-> amountIn]

\* ------------------------------------------------------------------------
\* SwapRouter.encodeSwaps and SwapRouter.swapCallParameters, for an array
\* of c.trades trades of protocol c.protocol, each of one swap over the
\* route r
\* ------------------------------------------------------------------------
\* numberOfTrades: a V3 or mixed trade counts its swaps, a V2 trade counts 1
NumberOfTrades(c) == c.trades

\* a check that already applies to two swaps
PerformAggregatedSlippageCheckAtTwo(c) ==
  c.tradeType = "EXACT_INPUT" /\ NumberOfTrades(c) >= 2

PerformAggregatedSlippageCheck(c) ==
  c.tradeType = "EXACT_INPUT" /\ NumberOfTrades(c) > 2

\* a custody flag that forgets the aggregated check
RouterMustCustodyNoAggregate(r, c, isSwapAndAdd) ==
  \/ r.output.isNative
  \/ c.fee # Undefined
  \/ isSwapAndAdd

RouterMustCustody(r, c, isSwapAndAdd) ==
  \/ r.output.isNative
  \/ c.fee # Undefined
  \/ isSwapAndAdd
  \/ PerformAggregatedSlippageCheck(c)

\* a permit step that accepts the native currency
EncodePermitAnyCurrency(r, c) ==
  IF c.inputTokenPermit = Undefined
  THEN [calldatas |-> <<>>, err |-> "none"]
  ELSE [calldatas |-> <<[method |-> "selfPermit", token |-> r.input,
                         permit |-> c.inputTokenPermit]>>,
        err |-> "none"]

\* encode permit if necessary
EncodePermit(r, c) ==
  IF c.inputTokenPermit = Undefined
  THEN [calldatas |-> <<>>, err |-> "none"]
  ELSE IF r.input.isNative
  THEN [calldatas |-> <<>>, err |-> "NON_TOKEN_PERMIT"]
  ELSE [calldatas |-> <<[method |-> "selfPermit", token |-> r.input,
                         permit |-> c.inputTokenPermit]>>,
        err |-> "none"]

\* the body of the loop over trades for one trade
EncodeTrade(r, c, isSwapAndAdd) ==
  IF c.protocol = "V2"
  THEN [calldatas |-> <<EncodeV2Swap(r, c, RouterMustCustody(r, c, isSwapAndAdd),
                                     PerformAggregatedSlippageCheck(c))>>,
        routes |-> <<>>, err |-> "none"]
  ELSE IF c.protocol = "V3"
  THEN [calldatas |-> <<EncodeV3Swap(r, c, RouterMustCustody(r, c, isSwapAndAdd),
                                     PerformAggregatedSlippageCheck(c))>>,
        routes |-> <<>>, err |-> "none"]
  ELSE EncodeMixedRouteSwap(r, c)

\* the loop over trades, after its first n trades
RECURSIVE EncodeTrades(_, _, _, _)
EncodeTrades(r, n, c, isSwapAndAdd) ==
  IF n = 0 THEN [calldatas |-> <<>>, routes |-> <<>>, err |-> "none"]
  ELSE LET prev == EncodeTrades(r, n - 1, c, isSwapAndAdd) IN
       IF prev.err # "none" THEN prev
       ELSE LET this == EncodeTrade(r, c, isSwapAndAdd) IN
            IF this.err # "none" THEN this
            ELSE [calldatas |-> prev.calldatas \o this.calldatas,
                  routes |-> prev.routes \o this.routes, err |-> "none"]

\* what encodeSwaps returns once the permit step has given p and the loop
\* over trades has given e; a throw returns nothing
SwapsResult(r, c, isSwapAndAdd, p, e) ==
  [calldatas |-> IF p.err # "none" \/ e.err # "none" THEN <<>>
                 ELSE p.calldatas \o e.calldatas,
   routes |-> IF p.err # "none" THEN <<>> ELSE e.routes,
   err |-> IF p.err # "none" THEN p.err ELSE e.err,
   performAggregatedSlippageCheck |-> PerformAggregatedSlippageCheck(c),
   routerMustCustody |-> RouterMustCustody(r, c, isSwapAndAdd),
   inputIsNative |-> r.input.isNative,
   outputIsNative |-> r.output.isNative,
   totalAmountIn |->
     c.trades * MaximumAmountIn(c.tradeType, c.slippageTolerance, c.inputAmount),
   minimumAmountOut |->
     c.trades * MinimumAmountOut(c.tradeType, c.slippageTolerance, c.outputAmount),
   quoteAmountOut |-> c.trades * c.outputAmount]

EncodeSwaps(r, c, isSwapAndAdd) ==
  SwapsResult(r, c, isSwapAndAdd, EncodePermit(r, c),
              EncodeTrades(r, c.trades, c, isSwapAndAdd))

\* a payment step that always sweeps the wrapped token
UnwrapOrSweepAlwaysSweep(r, c, e) ==
  IF ~e.routerMustCustody THEN <<>>
  ELSE <<[method |-> "sweepToken", token |-> Wrapped(r.output),
          amountMinimum |-> e.minimumAmountOut,
          recipient |-> c.recipient, fee |-> c.fee]>>

\* the calls appended by swapCallParameters after the swaps
UnwrapOrSweep(r, c, e) ==
  IF ~e.routerMustCustody THEN <<>>
  ELSE IF e.outputIsNative
  THEN <<[method |-> "unwrapWETH9", amountMinimum |-> e.minimumAmountOut,
          recipient |-> c.recipient, fee |-> c.fee]>>
  ELSE <<[method |-> "sweepToken", token |-> Wrapped(r.output),
          amountMinimum |-> e.minimumAmountOut,
          recipient |-> c.recipient, fee |-> c.fee]>>

\* a refund whenever the input is native
RefundETHAnyTradeType(c, e) ==
  IF e.inputIsNative THEN <<[method |-> "refundETH"]>> ELSE <<>>

RefundETH(c, e) ==
  IF e.inputIsNative /\ c.tradeType = "EXACT_OUTPUT"
  THEN <<[method |-> "refundETH"]>> ELSE <<>>

\* swapCallParameters after the call of encodeSwaps, whose result is e
AppendPayments(r, c, e) ==
  IF e.err # "none"
  THEN [calldatas |-> <<>>, routes |-> <<>>, err |-> e.err, value |-> 0,
        routerMustCustody |-> e.routerMustCustody]
  ELSE [calldatas |-> e.calldatas \o UnwrapOrSweep(r, c, e) \o RefundETH(c, e),
        routes |-> e.routes,
        err |-> "none",
        value |-> IF e.inputIsNative THEN e.totalAmountIn ELSE 0,
        routerMustCustody |-> e.routerMustCustody]

SwapCallParametersOf(r, c) == AppendPayments(r, c, EncodeSwaps(r, c, FALSE))

\* a trade exists over r only if no pool occurs twice in it (POOLS_DUPLICATED
\* of the trade constructor)
TradeOver(r) ==
  \A a, b \in 1..Len(r.pools) : a # b => r.pools[a].id # r.pools[b].id

\* a V2 trade is over a route of pairs, a V3 trade over a route of
\* concentrated-liquidity pools, a mixed trade over pools of both classes
ProtocolFits(r, protocol) ==
  IF protocol = "V2" THEN \A i \in 1..Len(r.pools) : r.pools[i].kind = "Pair"
  ELSE IF protocol = "V3" THEN \A i \in 1..Len(r.pools) : r.pools[i].kind = "Pool"
  ELSE \A i \in 1..Len(r.pools) : r.pools[i].kind \in {"Pair", "Pool"}

\* the arguments a caller passes besides the route: the number of trades in
\* the array (all of one class, over the route, with the same amounts, so
\* TOKEN_IN_DIFF, TOKEN_OUT_DIFF and TRADE_TYPE_DIFF hold), the class of the
\* trades, the trade type and the options
MaxTrades == 3

Calls ==
  [trades : 1..MaxTrades,
   protocol : {"V2", "V3", "MIXED"},
   tradeType : {"EXACT_INPUT", "EXACT_OUTPUT"},
   slippageTolerance : {Percent(0, 100), Percent(5, 100)},
   inputAmount : {100},
   outputAmount : {69},
   recipient : {Undefined, "0x0000000000000000000000000000000000000003"},
   inputTokenPermit : {Undefined, "permit"},
   fee : {Undefined, "fee"}]

NoCall ==
  [trades |-> 0, protocol |-> "MIXED", tradeType |-> "EXACT_INPUT",
   slippageTolerance |-> Percent(0, 100), inputAmount |-> 0,
   outputAmount |-> 0, recipient |-> Undefined,
   inputTokenPermit |-> Undefined, fee |-> Undefined]

NoResult ==
  [calldatas |-> <<>>, routes |-> <<>>, err |-> "none", value |-> 0,
   routerMustCustody |-> FALSE]

NoSwaps ==
  [calldatas |-> <<>>, routes |-> <<>>, err |-> "none",
   performAggregatedSlippageCheck |-> FALSE, routerMustCustody |-> FALSE,
   inputIsNative |-> FALSE, outputIsNative |-> FALSE, totalAmountIn |-> 0,
   minimumAmountOut |-> 0, quoteAmountOut |-> 0]

\* the pools trades are made over
SwapPools == {pool_0_1, pool_0_1_low, pool_1_weth, pair_0_1, pair_1_weth,
              pair_0_weth}

SwapPoolSeqs == UNION {[1..n -> SwapPools] : n \in 0..MaxPools}

\* ------------------------------------------------------------------------
\* Trade (entities/trade): construction over several legs and the amounts
\* derived from the legs
\* ------------------------------------------------------------------------
MaxLegs == 2

LegRoute(ps, inp, out) == [pools |-> ps, input |-> inp, output |-> out]

routev3 == LegRoute(<<pool_0_1, pool_1_weth>>, token0, weth)

route2v3 == LegRoute(<<pool_0_weth>>, token0, weth)

\* a route that shares pool_1_weth with routev3
route3v3 == LegRoute(<<pool_0_1_low, pool_1_weth>>, token0, weth)

\* pairs over the token pairs of the pools of routev3
routev2 == LegRoute(<<pair_0_1, pair_1_weth>>, token0, weth)

route2v2 == LegRoute(<<pair_0_weth>>, token0, weth)

\* a route with another input
routeOtherInput == LegRoute(<<pair_1_weth>>, token1, weth)

\* a route with another output
routeOtherOutput == LegRoute(<<pair_0_1>>, token0, token1)

LegRoutes ==
  {routev3, route2v3, route3v3, routev2, route2v2, routeOtherInput,
   routeOtherOutput}

\* the legs handed to fromRoutes: a route and the amount to trade over it
Legs == {[route |-> r, amount |-> 100] : r \in LegRoutes}

LegSeqs == UNION {[1..n -> Legs] : n \in 1..MaxLegs}

Swap(r, amountIn, amountOut) ==
  [route |-> r, inputAmount |-> amountIn, outputAmount |-> amountOut]

\* the legs handed to the constructor, with both amounts given
QuotedSwaps ==
  {Swap(r, q[1], q[2]) :
     r \in {routev3, route2v3},
     q \in {<<50, 35>>, <<50, 34>>, <<100, 69>>, <<78, 50>>, <<156, 100>>}}

SwapSeqs == UNION {[1..n -> QuotedSwaps] : n \in 1..MaxLegs}

\* the counter-amount the pool simulation answers for a leg: 69 out for 100
\* in, 156 in for 100 out
Simulate(leg, tradeType) ==
  IF tradeType = "EXACT_INPUT"
  THEN Swap(leg.route, leg.amount, (leg.amount * 69) \div 100)
  ELSE Swap(leg.route, (leg.amount * 156) \div 100, leg.amount)

PoolIdsOf(r) == {r.pools[i].id : i \in 1..Len(r.pools)}

\* a trade that never adds the pools to the set
PoolsDuplicatedNever(swaps, n) == FALSE

\* some pool of one of the first n legs is a pool of another of them
RECURSIVE PoolsDuplicated(_, _)
PoolsDuplicated(swaps, n) ==
  IF n <= 1 THEN FALSE
  ELSE \/ PoolsDuplicated(swaps, n - 1)
       \/ \E k \in 1..(n - 1) :
            PoolIdsOf(swaps[k].route) \cap PoolIdsOf(swaps[n].route) # {}

\* the checks of the trade on its legs
TradeError(swaps) ==
  IF PoolsDuplicated(swaps, Len(swaps)) THEN "POOLS_DUPLICATED"
  ELSE IF \E i \in 1..Len(swaps) :
            ~Equals(swaps[i].route.input, swaps[1].route.input)
  THEN "INPUT_CURRENCY_MATCH"
  ELSE IF \E i \in 1..Len(swaps) :
            ~Equals(swaps[i].route.output, swaps[1].route.output)
  THEN "OUTPUT_CURRENCY_MATCH"
  ELSE "none"

NoTrade == [swaps |-> <<>>, tradeType |-> "EXACT_INPUT"]

\* new Trade({ v2Routes, v3Routes, tradeType })
NewTrade(swaps, tradeType) ==
  IF TradeError(swaps) # "none" THEN NoTrade
  ELSE [swaps |-> swaps, tradeType |-> tradeType]

\* Trade.fromRoutes(v2Routes, v3Routes, tradeType)
FromRoutes(legs, tradeType) ==
  NewTrade([i \in 1..Len(legs) |-> Simulate(legs[i], tradeType)], tradeType)

\* trade.inputAmount, over the first n swaps
RECURSIVE InputAmount(_, _)
InputAmount(tr, n) ==
  IF n = 0 THEN 0 ELSE InputAmount(tr, n - 1) + tr.swaps[n].inputAmount

\* trade.outputAmount, over the first n swaps
RECURSIVE OutputAmount(_, _)
OutputAmount(tr, n) ==
  IF n = 0 THEN 0 ELSE OutputAmount(tr, n - 1) + tr.swaps[n].outputAmount

Amount(v) == [asked |-> TRUE, value |-> v, err |-> "none"]

AmountError(msg) == [asked |-> TRUE, value |-> 0, err |-> msg]

NotAsked == [asked |-> FALSE, value |-> 0, err |-> "none"]

\* slippageTolerance.lessThan(ZERO)
LessThanZero(tol) == tol.num * 1 < 0 * tol.den

\* every swap bounded on its own, the bounds summed
RECURSIVE SumOfMinimumAmountOut(_, _, _)
SumOfMinimumAmountOut(tr, tol, n) ==
  IF n = 0 THEN 0
  ELSE SumOfMinimumAmountOut(tr, tol, n - 1)
         + MinimumAmountOut(tr.tradeType, tol, tr.swaps[n].outputAmount)

TradeMinimumAmountOutPerSwap(tr, tol) ==
  IF LessThanZero(tol) THEN AmountError("SLIPPAGE_TOLERANCE")
  ELSE Amount(SumOfMinimumAmountOut(tr, tol, Len(tr.swaps)))

\* trade.minimumAmountOut(slippageTolerance), amountOut = this.outputAmount
TradeMinimumAmountOut(tr, tol) ==
  IF LessThanZero(tol) THEN AmountError("SLIPPAGE_TOLERANCE")
  ELSE Amount(MinimumAmountOut(tr.tradeType, tol,
                               OutputAmount(tr, Len(tr.swaps))))

RECURSIVE SumOfMaximumAmountIn(_, _, _)
SumOfMaximumAmountIn(tr, tol, n) ==
  IF n = 0 THEN 0
  ELSE SumOfMaximumAmountIn(tr, tol, n - 1)
         + MaximumAmountIn(tr.tradeType, tol, tr.swaps[n].inputAmount)

TradeMaximumAmountInPerSwap(tr, tol) ==
  IF LessThanZero(tol) THEN AmountError("SLIPPAGE_TOLERANCE")
  ELSE Amount(SumOfMaximumAmountIn(tr, tol, Len(tr.swaps)))

\* trade.maximumAmountIn(slippageTolerance), amountIn = this.inputAmount
TradeMaximumAmountIn(tr, tol) ==
  IF LessThanZero(tol) THEN AmountError("SLIPPAGE_TOLERANCE")
  ELSE Amount(MaximumAmountIn(tr.tradeType, tol,
                              InputAmount(tr, Len(tr.swaps))))

\* the price of the output in the input, at the amounts of the trade
ExecutionPriceInverted(tr) ==
  NewPrice(tr.swaps[1].route.output, tr.swaps[1].route.input,
           OutputAmount(tr, Len(tr.swaps)), InputAmount(tr, Len(tr.swaps)))

\* trade.executionPrice
ExecutionPrice(tr) ==
  NewPrice(tr.swaps[1].route.input, tr.swaps[1].route.output,
           InputAmount(tr, Len(tr.swaps)), OutputAmount(tr, Len(tr.swaps)))

\* a worst price that never looks at the sign of the tolerance
WorstExecutionPriceUnchecked(tr, tol) ==
  NewPrice(tr.swaps[1].route.input, tr.swaps[1].route.output,
           MaximumAmountIn(tr.tradeType, tol, InputAmount(tr, Len(tr.swaps))),
           MinimumAmountOut(tr.tradeType, tol, OutputAmount(tr, Len(tr.swaps))))

\* trade.worstExecutionPrice(slippageTolerance)
WorstExecutionPrice(tr, tol) ==
  LET amountIn == TradeMaximumAmountIn(tr, tol)
      amountOut == TradeMinimumAmountOut(tr, tol) IN
  IF amountIn.err # "none" THEN PriceError(amountIn.err)
  ELSE IF amountOut.err # "none" THEN PriceError(amountOut.err)
  ELSE NewPrice(tr.swaps[1].route.input, tr.swaps[1].route.output,
                amountIn.value, amountOut.value)

\* the tolerances the amounts are asked at
Tolerances ==
  {Percent(0 - 1, 100), Percent(0, 100), Percent(5, 100), Percent(200, 100)}

NotPriced ==
  [baseCurrency |-> ETHER, quoteCurrency |-> ETHER, numerator |-> 0,
   denominator |-> 0, err |-> "not asked"]

\* ------------------------------------------------------------------------
\* RemoveAndSwap.encodeRemoveAndSwap
\* ------------------------------------------------------------------------
MaxRemoveTrades == 2

BIPS == 10000

\* a currency object: the currency it holds and which object it is; two
\* objects may hold the same currency
Object(c, ref) == [currency |-> c, ref |-> ref]

\* a === b
StrictEquals(a, b) == a = b

\* the position: its pool holds its own token objects
NewPosition(a0, a1) ==
  [pool |-> [token0 |-> Object(token0, "pool"), token1 |-> Object(token1, "pool")],
   amount0 |-> a0, amount1 |-> a1]

Positions == {NewPosition(a0, a1) : a0 \in {2, 3}, a1 \in {2, 3}}

\* a V2 or V3 trade of one swap over route r; ref tells whether its input
\* currency is the object of the pool of the position or one of its own
RemoveTrade(kind, r, ref, tradeType, amountIn, amountOut) ==
  [kind |-> kind, route |-> r, tradeType |-> tradeType,
   inputCurrency |-> Object(r.input, ref), outputCurrency |-> r.output,
   inputAmount |-> amountIn, outputAmount |-> amountOut]

RemoveTrades ==
  {RemoveTrade("V2", NewMixedRouteSDK(<<pair_0_weth>>, token0, weth),
               "pool", "EXACT_INPUT", 1, 69),
   RemoveTrade("V3", NewMixedRouteSDK(<<pool_0_weth>>, token0, weth),
               "pool", "EXACT_INPUT", 2, 138),
   RemoveTrade("V3", NewMixedRouteSDK(<<pool_0_1, pool_1_weth>>, token0, weth),
               "own", "EXACT_INPUT", 2, 138),
   RemoveTrade("V2", NewMixedRouteSDK(<<pair_0_weth>>, token0, weth),
               "own", "EXACT_INPUT", 1, 69),
   RemoveTrade("V2", NewMixedRouteSDK(<<pair_1_weth>>, token1, weth),
               "pool", "EXACT_INPUT", 1, 69),
   RemoveTrade("V3", NewMixedRouteSDK(<<pool_1_weth>>, token1, weth),
               "own", "EXACT_INPUT", 2, 138),
   RemoveTrade("V3", NewMixedRouteSDK(<<pool_0_weth>>, token0, ETHER),
               "pool", "EXACT_INPUT", 1, 69),
   RemoveTrade("V2", NewMixedRouteSDK(<<pair_0_weth>>, token0, weth),
               "pool", "EXACT_OUTPUT", 1, 69),
   RemoveTrade("V3", NewMixedRouteSDK(<<pool_1_weth>>, weth, token1),
               "own", "EXACT_INPUT", 1, 69)}

RemoveTradeSeqs == UNION {[1..n -> RemoveTrades] : n \in 1..MaxRemoveTrades}

ExpandedSlippageTolerance(remove, swap) == [remove |-> remove, swap |-> swap]

\* isExpandedSlippageTolerance(slippageTolerance)
IsExpandedSlippageTolerance(s) == "remove" \in DOMAIN s

RemoveOptions ==
  [slippageTolerance :
     {Percent(0, 100), Percent(5, 100),
      ExpandedSlippageTolerance(Percent(5, 100), Percent(5, 100))},
   recipient : {"0x0000000000000000000000000000000000000003"},
   fee : {Undefined, "fee"}]

\* the options object after the first statement of encodeRemoveAndSwap
ExpandOptions(o) ==
  IF IsExpandedSlippageTolerance(o.slippageTolerance) THEN o
  ELSE [o EXCEPT !.slippageTolerance = ExpandedSlippageTolerance(@, @)]

\* getBips(numerator, denominator)
GetBips(numerator, denominator) == (numerator * BIPS) \div denominator

\* const swapToken0 = inputCurrency === position.pool.token0
SwapToken0(p, ts) == StrictEquals(ts[1].inputCurrency, p.pool.token0)

TotalPositionAmount(p, ts) == IF SwapToken0(p, ts) THEN p.amount0 ELSE p.amount1

\* trades.reduce((sum, trade) => sum.add(trade.inputAmount), 0), over the
\* first n trades
RECURSIVE TotalSwapAmount(_, _)
TotalSwapAmount(ts, n) ==
  IF n = 0 THEN 0 ELSE TotalSwapAmount(ts, n - 1) + ts[n].inputAmount

\* the invariants of encodeRemoveAndSwap, in the order of the code
RemoveError(p, ts, o) ==
  LET inputCurrency == ts[1].inputCurrency.currency
      swap == o.slippageTolerance.swap IN
  IF ~(swap.num * 1 > 0 * swap.den) THEN "SWAP_SLIPPAGE_TOLERANCE_TOO_LOW"
  ELSE IF \E i \in 1..Len(ts) :
            ~Equals(ts[i].inputCurrency.currency, inputCurrency)
  THEN "TOKEN_IN_DIFF"
  ELSE IF \E i \in 1..Len(ts) :
            ~Equals(ts[i].outputCurrency, ts[1].outputCurrency)
  THEN "TOKEN_OUT_DIFF"
  ELSE IF \E i \in 1..Len(ts) : ts[i].tradeType # "EXACT_INPUT"
  THEN "TRADE_TYPE_INVALID"
  ELSE IF ~(\/ Equals(inputCurrency, p.pool.token0.currency)
            \/ Equals(inputCurrency, p.pool.token1.currency))
  THEN "INPUT_INVALID"
  ELSE IF TotalSwapAmount(ts, Len(ts)) > TotalPositionAmount(p, ts)
  THEN "EXCESSIVE_SWAP"
  ELSE "none"

\* the three arrays after the first n trades
RECURSIVE ExactInputs(_, _, _, _, _)
ExactInputs(ts, o, routerMustCustody, totalSwapAmount, n) ==
  IF n = 0
  THEN [v2ExactInputs |-> <<>>, v3ExactInputSingles |-> <<>>,
        v3ExactInputs |-> <<>>]
  ELSE LET prev == ExactInputs(ts, o, routerMustCustody, totalSwapAmount, n - 1)
           trade == ts[n]
           amountInBips == GetBips(trade.inputAmount, totalSwapAmount)
           amountOut == MinimumAmountOut(trade.tradeType,
                                         o.slippageTolerance.swap,
                                         trade.outputAmount)
           recipient == IF routerMustCustody THEN ADDRESS_THIS
                        ELSE o.recipient IN
       IF trade.kind = "V2"
       THEN [prev EXCEPT !.v2ExactInputs =
               Append(@, [amountInBips |-> amountInBips,
                          amountOutMin |-> amountOut,
                          path |-> TokenAddresses(trade.route.path),
                          to |-> recipient])]
       ELSE IF Len(trade.route.pools) = 1
       THEN [prev EXCEPT !.v3ExactInputSingles =
               Append(@, [amountInBips |-> amountInBips,
                          tokenIn |-> trade.route.path[1].address,
                          tokenOut |-> trade.route.path[2].address,
                          fee |-> trade.route.pools[1].fee,
                          recipient |-> recipient,
                          amountOutMinimum |-> amountOut])]
       ELSE [prev EXCEPT !.v3ExactInputs =
               Append(@, [amountInBips |-> amountInBips,
                          path |-> EncodeRouteToPath(trade.route, FALSE),
                          recipient |-> recipient,
                          amountOutMinimum |-> amountOut])]

\* the unwrap or sweep at the end, when the router keeps the output
OtherCalls(ts, o, routerMustCustody) ==
  IF ~routerMustCustody THEN <<>>
  ELSE IF ts[1].outputCurrency.isNative
  THEN <<[method |-> "unwrapWETH9", amountMinimum |-> 0,
          recipient |-> o.recipient, fee |-> o.fee]>>
  ELSE <<[method |-> "sweepToken", token |-> Wrapped(ts[1].outputCurrency),
          amountMinimum |-> 0, recipient |-> o.recipient, fee |-> o.fee]>>

NotRemoved ==
  [err |-> "none", swapToken0 |-> FALSE, swapEntireAmount |-> FALSE,
   v2ExactInputs |-> <<>>, v3ExactInputSingles |-> <<>>,
   v3ExactInputs |-> <<>>, otherCalls |-> <<>>]

\* encodeRemoveAndSwap(position, trades, options) once options holds both
\* tolerances: the parameters it encodes
EncodeRemoveAndSwap(p, ts, o) ==
  LET e == RemoveError(p, ts, o)
      totalSwapAmount == TotalSwapAmount(ts, Len(ts))
      routerMustCustody == ts[1].outputCurrency.isNative \/ o.fee # Undefined
      inputs == ExactInputs(ts, o, routerMustCustody, totalSwapAmount, Len(ts)) IN
  IF e # "none" THEN [NotRemoved EXCEPT !.err = e]
  ELSE [err |-> "none",
        swapToken0 |-> SwapToken0(p, ts),
        swapEntireAmount |-> TotalPositionAmount(p, ts) = totalSwapAmount,
        v2ExactInputs |-> inputs.v2ExactInputs,
        v3ExactInputSingles |-> inputs.v3ExactInputSingles,
        v3ExactInputs |-> inputs.v3ExactInputs,
        otherCalls |-> OtherCalls(ts, o, routerMustCustody)]

NoPosition == NewPosition(0, 0)

NoOptions == [slippageTolerance |-> Percent(0, 100), recipient |-> Undefined,
              fee |-> Undefined]

\* ------------------------------------------------------------------------
\* State
\* ------------------------------------------------------------------------
VARIABLES pools, input, output, pc, route, err,
          _midPrice, computed, accesses, returned, priceErr,
          divPc, j, acc,
          swapPc, call, isSwapAndAdd, swaps, result,
          packed, packedParts,
          tradePc, tradeOp, legs, trade, tradeErr, minOut, maxIn, worst,
          executionPrice,
          removePc, position, removeTrades, passedOptions, options, removed,
          removedAgain

vars == <<pools, input, output, pc, route, err,
          _midPrice, computed, accesses, returned, priceErr,
          divPc, j, acc,
          swapPc, call, isSwapAndAdd, swaps, result,
          packed, packedParts,
          tradePc, tradeOp, legs, trade, tradeErr, minOut, maxIn, worst,
          executionPrice,
          removePc, position, removeTrades, passedOptions, options, removed,
          removedAgain>>

tradeVars == <<tradePc, tradeOp, legs, trade, tradeErr, minOut, maxIn, worst,
               executionPrice>>

removeVars == <<removePc, position, removeTrades, passedOptions, options,
                removed, removedAgain>>

divVars == <<divPc, j, acc>>

swapVars == <<swapPc, call, isSwapAndAdd, swaps, result>>

pathVars == <<packed, packedParts>>

routeVars == <<pools, input, output, pc, route, err>>

priceVars == <<_midPrice, computed, accesses, returned, priceErr>>

\* the state before the route is constructed, but for the pools and the
\* currencies passed to the constructor
Fresh ==
  /\ pc = "new"
  /\ route = NoRoute
  /\ err = "none"
  /\ _midPrice = NoPrice
  /\ computed = 0
  /\ accesses = 0
  /\ returned = NoPrice
  /\ priceErr = "none"
  /\ divPc = "idle"
  /\ j = 0
  /\ acc = <<>>
  /\ swapPc = "idle"
  /\ call = NoCall
  /\ isSwapAndAdd = FALSE
  /\ swaps = NoSwaps
  /\ result = NoResult
  /\ packed = [exactOutput \in BOOLEAN |-> NotPacked]
  /\ packedParts = [exactOutput \in BOOLEAN |-> NotPacked]
  /\ tradePc = "new"
  /\ tradeOp = "none"
  /\ legs = <<>>
  /\ trade = NoTrade
  /\ tradeErr = "none"
  /\ minOut = [tol |-> Percent(0, 100)] @@ NotAsked
  /\ maxIn = [tol |-> Percent(0, 100)] @@ NotAsked
  /\ worst = [tol \in Tolerances |-> NotPriced]
  /\ executionPrice = NotPriced
  /\ removePc = "idle"
  /\ position = NoPosition
  /\ removeTrades = <<>>
  /\ passedOptions = NoOptions
  /\ options = NoOptions
  /\ removed = NotRemoved
  /\ removedAgain = NotRemoved

Init ==
  /\ pools \in PoolSeqs
  /\ input \in Currencies
  /\ output \in Currencies
  /\ Fresh

\* the routes trades are made over
InitSwap ==
  /\ pools \in SwapPoolSeqs
  /\ input \in Currencies
  /\ output \in Currencies
  /\ Fresh

\* new MixedRouteSDK(pools, input, output)
Construct ==
  /\ pc = "new"
  /\ err' = ConstructorError(pools, input, output)
  /\ route' = NewMixedRouteSDK(pools, input, output)
  /\ pc' = IF err' = "none" THEN "constructed" ELSE "threw"
  /\ UNCHANGED <<pools, input, output>>
  /\ UNCHANGED tradeVars
  /\ UNCHANGED removeVars
  /\ UNCHANGED priceVars
  /\ UNCHANGED divVars
  /\ UNCHANGED swapVars
  /\ UNCHANGED pathVars

\* one read of route.midPrice
MidPrice ==
  /\ pc = "constructed"
  /\ accesses < MaxAccess
  /\ LET g == MidPriceGet(route, _midPrice, computed) IN
     /\ returned' = g.value
     /\ _midPrice' = g.cache
     /\ computed' = g.count
     /\ priceErr' = g.err
  /\ accesses' = accesses + 1
  /\ UNCHANGED routeVars
  /\ UNCHANGED tradeVars
  /\ UNCHANGED removeVars
  /\ UNCHANGED divVars
  /\ UNCHANGED swapVars
  /\ UNCHANGED pathVars

Next == Construct \/ MidPrice

Spec == Init /\ [][Next]_vars

\* divideMixedRouteIntoConsecutiveSections(route): entry
DivideBegin ==
  /\ pc = "constructed"
  /\ divPc = "idle"
  /\ divPc' = "loop"
  /\ j' = 0
  /\ acc' = <<>>
  /\ UNCHANGED routeVars
  /\ UNCHANGED tradeVars
  /\ UNCHANGED removeVars
  /\ UNCHANGED priceVars
  /\ UNCHANGED swapVars
  /\ UNCHANGED pathVars

\* one pass of while (j < route.pools.length)
DivideIterate ==
  /\ divPc = "loop"
  /\ j < Len(route.pools)
  /\ Len(acc) < MaxSections
  /\ acc' = Append(acc, SectionFrom(route.pools, j).section)
  /\ j' = SectionFrom(route.pools, j).j
  /\ UNCHANGED divPc
  /\ UNCHANGED routeVars
  /\ UNCHANGED tradeVars
  /\ UNCHANGED removeVars
  /\ UNCHANGED priceVars
  /\ UNCHANGED swapVars
  /\ UNCHANGED pathVars

\* return acc
DivideReturn ==
  /\ divPc = "loop"
  /\ ~(j < Len(route.pools))
  /\ divPc' = "done"
  /\ UNCHANGED <<j, acc>>
  /\ UNCHANGED routeVars
  /\ UNCHANGED tradeVars
  /\ UNCHANGED removeVars
  /\ UNCHANGED priceVars
  /\ UNCHANGED swapVars
  /\ UNCHANGED pathVars

NextDivide == Construct \/ DivideBegin \/ DivideIterate \/ DivideReturn

SpecDivide == Init /\ [][NextDivide]_vars

\* SwapRouter.swapCallParameters(trades, options) on trades over the route
SwapCallParameters ==
  /\ pc = "constructed"
  /\ swapPc = "idle"
  /\ TradeOver(route)
  /\ \E c \in Calls :
       /\ ProtocolFits(route, c.protocol)
       /\ call' = c
       /\ swaps' = EncodeSwaps(route, c, FALSE)
       /\ result' = AppendPayments(route, c, swaps')
  /\ isSwapAndAdd' = FALSE
  /\ swapPc' = "done"
  /\ UNCHANGED routeVars
  /\ UNCHANGED tradeVars
  /\ UNCHANGED removeVars
  /\ UNCHANGED priceVars
  /\ UNCHANGED divVars
  /\ UNCHANGED pathVars

NextSwap == Construct \/ SwapCallParameters

SpecSwap == InitSwap /\ [][NextSwap]_vars

\* SwapRouter.encodeSwaps(trades, options, isSwapAndAdd), as called by
\* swapCallParameters (isSwapAndAdd undefined) and swapAndAddCallParameters
\* (isSwapAndAdd true)
EncodeSwapsCall ==
  /\ pc = "constructed"
  /\ swapPc = "idle"
  /\ TradeOver(route)
  /\ \E c \in Calls, b \in BOOLEAN :
       /\ ProtocolFits(route, c.protocol)
       /\ call' = c
       /\ isSwapAndAdd' = b
       /\ swaps' = EncodeSwaps(route, c, b)
  /\ swapPc' = "encoded"
  /\ UNCHANGED result
  /\ UNCHANGED routeVars
  /\ UNCHANGED tradeVars
  /\ UNCHANGED removeVars
  /\ UNCHANGED priceVars
  /\ UNCHANGED divVars
  /\ UNCHANGED pathVars

NextEncode == Construct \/ EncodeSwapsCall

SpecEncode == InitSwap /\ [][NextEncode]_vars

\* encodeMixedRouteToPath(route, exactOutput) of utils/encodeMixedRouteToPath
EncodeMixedRouteToPathCall ==
  /\ pc = "constructed"
  /\ \E exactOutput \in BOOLEAN :
       /\ packed[exactOutput] = NotPacked
       /\ packed' = [packed EXCEPT
                       ![exactOutput] = EncodeMixedRouteToPath(route, exactOutput)]
  /\ UNCHANGED packedParts
  /\ UNCHANGED routeVars
  /\ UNCHANGED tradeVars
  /\ UNCHANGED removeVars
  /\ UNCHANGED priceVars
  /\ UNCHANGED divVars
  /\ UNCHANGED swapVars

\* encodeMixedRouteToPath(route, exactOutput) of utils/encodeRouteToPath,
\* over route.parts
EncodePartsToPathCall ==
  /\ pc = "constructed"
  /\ \E exactOutput \in BOOLEAN :
       /\ packedParts[exactOutput] = NotPacked
       /\ packedParts' = [packedParts EXCEPT
                            ![exactOutput] = EncodePartsToPath(route, exactOutput)]
  /\ UNCHANGED packed
  /\ UNCHANGED routeVars
  /\ UNCHANGED tradeVars
  /\ UNCHANGED removeVars
  /\ UNCHANGED priceVars
  /\ UNCHANGED divVars
  /\ UNCHANGED swapVars

NextPath == Construct \/ EncodeMixedRouteToPathCall \/ EncodePartsToPathCall

SpecPath == Init /\ [][NextPath]_vars

\* the state before any trade is built and before encodeRemoveAndSwap is
\* called, over no route
InitIdle ==
  /\ pools = <<>>
  /\ input = token0
  /\ output = weth
  /\ Fresh

\* Trade.fromRoutes(v2Routes, v3Routes, tradeType)
FromRoutesCall ==
  /\ tradePc = "new"
  /\ \E ls \in LegSeqs, tradeType \in {"EXACT_INPUT", "EXACT_OUTPUT"} :
       /\ legs' = ls
       /\ tradeErr' = TradeError([i \in 1..Len(ls) |-> Simulate(ls[i], tradeType)])
       /\ trade' = FromRoutes(ls, tradeType)
  /\ tradeOp' = "fromRoutes"
  /\ tradePc' = IF tradeErr' = "none" THEN "constructed" ELSE "threw"
  /\ UNCHANGED <<minOut, maxIn, worst, executionPrice>>
  /\ UNCHANGED routeVars
  /\ UNCHANGED priceVars
  /\ UNCHANGED divVars
  /\ UNCHANGED swapVars
  /\ UNCHANGED pathVars
  /\ UNCHANGED removeVars

\* new Trade({ v2Routes, v3Routes, tradeType })
NewTradeCall ==
  /\ tradePc = "new"
  /\ \E ss \in SwapSeqs, tradeType \in {"EXACT_INPUT", "EXACT_OUTPUT"} :
       /\ legs' = ss
       /\ tradeErr' = TradeError(ss)
       /\ trade' = NewTrade(ss, tradeType)
  /\ tradeOp' = "new Trade"
  /\ tradePc' = IF tradeErr' = "none" THEN "constructed" ELSE "threw"
  /\ UNCHANGED <<minOut, maxIn, worst, executionPrice>>
  /\ UNCHANGED routeVars
  /\ UNCHANGED priceVars
  /\ UNCHANGED divVars
  /\ UNCHANGED swapVars
  /\ UNCHANGED pathVars
  /\ UNCHANGED removeVars

\* trade.minimumAmountOut(slippageTolerance)
MinimumAmountOutCall ==
  /\ tradePc = "constructed"
  /\ \E tol \in Tolerances :
       minOut' = [tol |-> tol] @@ TradeMinimumAmountOut(trade, tol)
  /\ UNCHANGED <<tradePc, tradeOp, legs, trade, tradeErr, maxIn, worst,
                 executionPrice>>
  /\ UNCHANGED routeVars
  /\ UNCHANGED priceVars
  /\ UNCHANGED divVars
  /\ UNCHANGED swapVars
  /\ UNCHANGED pathVars
  /\ UNCHANGED removeVars

\* trade.maximumAmountIn(slippageTolerance)
MaximumAmountInCall ==
  /\ tradePc = "constructed"
  /\ \E tol \in Tolerances :
       maxIn' = [tol |-> tol] @@ TradeMaximumAmountIn(trade, tol)
  /\ UNCHANGED <<tradePc, tradeOp, legs, trade, tradeErr, minOut, worst,
                 executionPrice>>
  /\ UNCHANGED routeVars
  /\ UNCHANGED priceVars
  /\ UNCHANGED divVars
  /\ UNCHANGED swapVars
  /\ UNCHANGED pathVars
  /\ UNCHANGED removeVars

\* trade.worstExecutionPrice(slippageTolerance)
WorstExecutionPriceCall ==
  /\ tradePc = "constructed"
  /\ \E tol \in Tolerances :
       /\ worst[tol] = NotPriced
       /\ worst' = [worst EXCEPT ![tol] = WorstExecutionPrice(trade, tol)]
  /\ UNCHANGED <<tradePc, tradeOp, legs, trade, tradeErr, minOut, maxIn,
                 executionPrice>>
  /\ UNCHANGED routeVars
  /\ UNCHANGED priceVars
  /\ UNCHANGED divVars
  /\ UNCHANGED swapVars
  /\ UNCHANGED pathVars
  /\ UNCHANGED removeVars

\* one read of trade.executionPrice
ExecutionPriceCall ==
  /\ tradePc = "constructed"
  /\ executionPrice = NotPriced
  /\ executionPrice' = ExecutionPrice(trade)
  /\ UNCHANGED <<tradePc, tradeOp, legs, trade, tradeErr, minOut, maxIn, worst>>
  /\ UNCHANGED routeVars
  /\ UNCHANGED priceVars
  /\ UNCHANGED divVars
  /\ UNCHANGED swapVars
  /\ UNCHANGED pathVars
  /\ UNCHANGED removeVars

NextTrade ==
  \/ FromRoutesCall
  \/ NewTradeCall
  \/ MinimumAmountOutCall
  \/ MaximumAmountInCall
  \/ WorstExecutionPriceCall
  \/ ExecutionPriceCall

SpecTrade == InitIdle /\ [][NextTrade]_vars

\* RemoveAndSwap.encodeRemoveAndSwap(position, trades, options): the caller
\* keeps the three objects
EncodeRemoveAndSwapCall ==
  /\ removePc = "idle"
  /\ \E p \in Positions, ts \in RemoveTradeSeqs, o \in RemoveOptions :
       /\ position' = p
       /\ removeTrades' = ts
       /\ passedOptions' = o
       /\ options' = ExpandOptions(o)
       /\ removed' = EncodeRemoveAndSwap(p, ts, options')
  /\ removePc' = "called"
  /\ UNCHANGED removedAgain
  /\ UNCHANGED routeVars
  /\ UNCHANGED priceVars
  /\ UNCHANGED divVars
  /\ UNCHANGED swapVars
  /\ UNCHANGED pathVars
  /\ UNCHANGED tradeVars

\* a second call with the same three objects
EncodeRemoveAndSwapAgain ==
  /\ removePc = "called"
  /\ options' = ExpandOptions(options)
  /\ removedAgain' = EncodeRemoveAndSwap(position, removeTrades, options')
  /\ removePc' = "again"
  /\ UNCHANGED <<position, removeTrades, passedOptions, removed>>
  /\ UNCHANGED routeVars
  /\ UNCHANGED priceVars
  /\ UNCHANGED divVars
  /\ UNCHANGED swapVars
  /\ UNCHANGED pathVars
  /\ UNCHANGED tradeVars

NextRemove == EncodeRemoveAndSwapCall \/ EncodeRemoveAndSwapAgain

SpecRemove == InitIdle /\ [][NextRemove]_vars

\* ------------------------------------------------------------------------
\* Claims on the constructor
\* ------------------------------------------------------------------------
\* the other side of pool p, seen from token t
OtherSide(p, t) == IF t = p.token0 THEN p.token1 ELSE p.token0

\* the running token after i hops from start
RECURSIVE RunningToken(_, _, _)
RunningToken(ps, start, i) ==
  IF i = 0 THEN start ELSE OtherSide(ps[i], RunningToken(ps, start, i - 1))

IsSide(p, t) == t = p.token0 \/ t = p.token1

NonEmpty(ps) == Len(ps) >= 1

OneChain(ps) == \A i \in 1..Len(ps) : ps[i].token0.chainId = ps[1].token0.chainId

FirstHasInput(ps, inp) == IsSide(ps[1], Wrapped(inp))

LastHasOutput(ps, out) == IsSide(ps[Len(ps)], Wrapped(out))

Chains(ps, inp) ==
  \A i \in 1..Len(ps) : IsSide(ps[i], RunningToken(ps, Wrapped(inp), i - 1))

ExpectedError(ps, inp, out) ==
  IF ~NonEmpty(ps) THEN "POOLS"
  ELSE IF ~OneChain(ps) THEN "CHAIN_IDS"
  ELSE IF ~FirstHasInput(ps, inp) THEN "INPUT"
  ELSE IF ~LastHasOutput(ps, out) THEN "OUTPUT"
  ELSE IF ~Chains(ps, inp) THEN "PATH"
  ELSE "none"

\* C1: construction succeeds exactly when the pools are non-empty, on one
\* chain, the first pool involves the wrapped input, the last pool involves
\* the wrapped output and every hop chains; otherwise it raises the error of
\* the failing condition and produces no route.
C1_ConstructorContract ==
  pc # "new" =>
    /\ (pc = "constructed") <=>
         (/\ NonEmpty(pools) /\ OneChain(pools) /\ FirstHasInput(pools, input)
          /\ LastHasOutput(pools, output) /\ Chains(pools, input))
    /\ pc = "constructed" => err = "none" /\ route.valid
    /\ pc = "threw" =>
         /\ route = NoRoute
         /\ err = ExpectedError(pools, input, output)
         /\ err \in {"POOLS", "CHAIN_IDS", "INPUT", "OUTPUT", "PATH"}

C1_Witness ==
  /\ pc = "threw" /\ err = "PATH" /\ Len(pools) = 3 /\ input = ETHER

\* C2: a constructed route has a token path of pools.length + 1 entries that
\* starts at the wrapped input, whose consecutive entries are the two sides
\* of the pool between them, and it keeps the pools in the given order.
C2_TokenPath ==
  pc = "constructed" =>
    /\ route.pools = pools
    /\ Len(route.path) = Len(pools) + 1
    /\ route.path[1] = Wrapped(input)
    /\ \A i \in 1..Len(pools) :
         \/ route.path[i] = pools[i].token0 /\ route.path[i + 1] = pools[i].token1
         \/ route.path[i] = pools[i].token1 /\ route.path[i + 1] = pools[i].token0

C2_Witness ==
  /\ pc = "constructed" /\ Len(pools) = 3
  /\ \E i \in 1..3 : route.path[i] = pools[i].token1

\* ------------------------------------------------------------------------
\* Claims on the mid price
\* ------------------------------------------------------------------------
\* spot price of pool p for the hop from token t, as <<numerator, denominator>>
HopPrice(p, t) ==
  IF p.kind = "Pair"
  THEN IF t = p.token0 THEN <<p.reserve1, p.reserve0>>
       ELSE <<p.reserve0, p.reserve1>>
  ELSE IF t = p.token0 THEN <<p.priceNum, p.priceDen>>
       ELSE <<p.priceDen, p.priceNum>>

RECURSIVE HopProduct(_, _, _)
HopProduct(r, n, k) ==
  IF n = 0 THEN 1
  ELSE HopPrice(r.pools[n], r.path[n])[k] * HopProduct(r, n - 1, k)

Recognised(ps) == \A i \in 1..Len(ps) : ps[i].kind \in {"Pair", "Pool"}

\* C3: the mid price of a valid route is the product of the spot prices of
\* its hops in the walked direction, with the given input as base and the
\* given output as quote currency (native or not).
C3_MidPriceProduct ==
  (pc = "constructed" /\ accesses > 0) =>
    /\ Recognised(pools) <=> returned # NoPrice
    /\ Recognised(pools) <=> priceErr = "none"
    /\ returned # NoPrice =>
         /\ returned.baseCurrency = input
         /\ returned.quoteCurrency = output
         /\ returned.numerator = HopProduct(route, Len(pools), 1)
         /\ returned.denominator = HopProduct(route, Len(pools), 2)

C3_Witness ==
  /\ pc = "constructed" /\ returned # NoPrice /\ Len(pools) = 3
  /\ input = ETHER
  /\ pools[1].kind = "Pair" /\ pools[2].kind = "Pool"
  /\ route.path[2] = pools[2].token1
  /\ returned.numerator # returned.denominator

\* C4: the mid price is computed at most once; once it is cached every
\* access returns that one cached instance.
C4_MidPriceCached ==
  /\ computed <= 1
  /\ _midPrice # NoPrice => computed = 1 /\ _midPrice.id = 1
  /\ (accesses > 0 /\ returned # NoPrice) => returned = _midPrice
  /\ (accesses > 0 /\ Recognised(pools)) => _midPrice # NoPrice

C4_Witness ==
  /\ accesses >= 2 /\ returned # NoPrice /\ returned = _midPrice
  /\ computed = 1

\* ------------------------------------------------------------------------
\* Claims on the division into sections
\* ------------------------------------------------------------------------
RECURSIVE Concat(_, _)
Concat(ss, n) == IF n = 0 THEN <<>> ELSE Concat(ss, n - 1) \o ss[n]

VariantChanges(ps) ==
  Cardinality({i \in 1..(Len(ps) - 1) : ps[i].kind # ps[i + 1].kind})

\* C5: for a route of recognised pools the returned sections, concatenated
\* in order, are exactly the pools of the route.
C5_SectionsExhaustive ==
  (divPc = "done" /\ Recognised(pools)) => Concat(acc, Len(acc)) = pools

C5_Witness ==
  /\ divPc = "done" /\ Len(pools) = 3 /\ Len(acc) = 2
  /\ pools[1].kind = "Pair" /\ pools[3].kind = "Pool"

\* C6: every returned section is non-empty and of one variant, adjacent
\* sections differ in variant, and there is one section more than there are
\* changes of variant between consecutive pools.
C6_SectionsMaximal ==
  divPc = "done" =>
    /\ \A k \in 1..Len(acc) :
         /\ Len(acc[k]) >= 1
         /\ \A i \in 1..Len(acc[k]) : acc[k][i].kind = acc[k][1].kind
    /\ \A k \in 1..(Len(acc) - 1) : acc[k][1].kind # acc[k + 1][1].kind
    /\ Len(acc) = 1 + VariantChanges(pools)

C6_Witness ==
  /\ divPc = "done" /\ Len(pools) = 3 /\ Len(acc) = 2 /\ Len(acc[1]) = 2
  /\ acc[1][1].kind = "Pool"

\* C7: on a pool of neither recognised variant the division fails with an
\* invalid-pool-variant error: once a pass of the scan has met such a pool
\* (it collected nothing) the division has thrown, it is not running on and
\* it has returned nothing.
C7_FailsOnUnknownVariant ==
  (~Recognised(pools) /\ \E k \in 1..Len(acc) : acc[k] = <<>>) =>
    divPc = "threw"

\* ------------------------------------------------------------------------
\* Claims on the encoding of a mixed leg
\* ------------------------------------------------------------------------
\* the permit step does not throw: no permit is asked for the native currency
PermitPasses == ~(call.inputTokenPermit # Undefined /\ input.isNative)

IsSwapOp(op) ==
  op.method \in {"swapExactTokensForTokens", "swapTokensForExactTokens",
                 "exactInputSingle", "exactOutputSingle", "exactInput",
                 "exactOutput"}

\* the swap operations of the plan, in plan order
SwapOps == SelectSeq(result.calldatas, IsSwapOp)

\* a mixed leg that the claims speak of: an exact-input swap over a valid
\* route of at least two recognised pools has been encoded
MixedLegEncoded ==
  /\ pc = "constructed" /\ swapPc = "done"
  /\ call.protocol = "MIXED"
  /\ Len(pools) >= 2 /\ Recognised(pools)
  /\ call.tradeType = "EXACT_INPUT"
  /\ PermitPasses

NumSegments == 1 + VariantChanges(pools)

\* position of the k-th swap operation inside its leg
SegmentIndex(k) == ((k - 1) % NumSegments) + 1

TrueRecipient == IF call.recipient = Undefined THEN MSG_SENDER ELSE call.recipient

CustodyRequired ==
  \/ output.isNative
  \/ call.fee # Undefined
  \/ (call.tradeType = "EXACT_INPUT" /\ call.trades > 2)

\* C8: the route built for segment i starts at the output token of segment
\* i - 1 (the wrapped input of the route for the first segment), ends at the
\* token reached by walking the pools of the segment from there, and passes
\* the continuity checks of a route, for every valid mixed route of at least
\* two pools.
C8_SegmentBoundaries ==
  MixedLegEncoded =>
    /\ result.err = "none"
    /\ Len(result.routes) = call.trades * NumSegments
    /\ \A k \in 1..Len(result.routes) :
         LET sub == result.routes[k] IN
         /\ sub.input = IF SegmentIndex(k) = 1 THEN Wrapped(input)
                        ELSE result.routes[k - 1].output
         /\ sub.output = RunningToken(sub.pools, sub.input, Len(sub.pools))
         /\ FirstHasInput(sub.pools, sub.input)
         /\ LastHasOutput(sub.pools, sub.output)
         /\ Chains(sub.pools, sub.input)

\* C9: a mixed leg of n segments emits exactly n operations in segment
\* order; the first carries the bounded input amount and the others 0 as
\* amountIn, the last carries the slippage-bounded minimum output and the
\* others 0 as amountOutMinimum.
C9_SegmentAmounts ==
  MixedLegEncoded =>
    /\ result.err = "none"
    /\ Len(result.routes) = call.trades * NumSegments
    /\ Len(result.calldatas) >= Len(result.routes)
    /\ \A t \in 1..call.trades :
         Concat(SubSeq([k \in 1..Len(result.routes) |-> result.routes[k].pools],
                       (t - 1) * NumSegments + 1, t * NumSegments),
                NumSegments) = pools
    /\ \A k \in 1..Len(result.routes) :
         LET op == SwapOps[k] IN
         /\ op.method \in {"exactInput", "swapExactTokensForTokens"}
         /\ op.amountIn = IF SegmentIndex(k) = 1 THEN call.inputAmount ELSE 0
         /\ op.amountOutMinimum =
              IF SegmentIndex(k) = NumSegments
              THEN (call.outputAmount * call.slippageTolerance.den)
                     \div (call.slippageTolerance.den + call.slippageTolerance.num)
              ELSE 0

\* C10: in a mixed leg every segment but the last sends to the custody
\* address of the router; the last sends to the true recipient when the
\* router need not take custody and to the custody address when it must.
C10_SegmentRecipients ==
  (MixedLegEncoded /\ result.err = "none") =>
    \A k \in 1..Len(result.routes) :
      SwapOps[k].recipient =
        IF SegmentIndex(k) # NumSegments THEN ADDRESS_THIS
        ELSE IF CustodyRequired THEN ADDRESS_THIS
        ELSE TrueRecipient

\* a mixed trade has been compiled by swapCallParameters
MixedCompiled ==
  /\ pc = "constructed" /\ swapPc = "done" /\ call.protocol = "MIXED"

SingleHopError == "MixedRouteSDK does not support single hop swaps"

ExactInputOnlyError == "Mixed route trades must be exact input trades"

\* C11: compiling a mixed leg over a route of exactly one pool fails and
\* returns no plan, so it never succeeds with zero operations for the leg;
\* the error is the unsupported-single-hop error whenever the leg is reached,
\* that is unless the permit step or the exact-input test of the trade has
\* thrown before it.
C11_SingleHopMixedRejected ==
  (MixedCompiled /\ Len(pools) = 1) =>
    /\ result.err # "none"
    /\ result.calldatas = <<>>
    /\ (call.tradeType = "EXACT_INPUT" /\ PermitPasses) =>
         result.err = SingleHopError
    /\ result.err \in {SingleHopError, ExactInputOnlyError, "NON_TOKEN_PERMIT"}

C11_Witness ==
  /\ MixedCompiled /\ Len(pools) = 1 /\ result.err = SingleHopError
  /\ call.trades = 1 /\ call.inputTokenPermit # Undefined

\* the token sequence and the fee sequence of the path of a swap operation
PathTokens(op) ==
  IF op.method \in {"exactInput", "exactOutput"}
  THEN [i \in 1..((Len(op.path) + 1) \div 2) |-> op.path[2 * i - 1][2]]
  ELSE op.path

PathFees(op) ==
  IF op.method \in {"exactInput", "exactOutput"}
  THEN [i \in 1..((Len(op.path) - 1) \div 2) |-> op.path[2 * i][2]]
  ELSE <<>>

\* the fee or placeholder of each pool of a route, in pool order
FeesOf(r) ==
  [i \in 1..Len(r.pools) |->
     IF r.pools[i].kind = "Pool" THEN r.pools[i].fee ELSE V2_FEE_PATH_PLACEHOLDER]

\* the path of segment k is that of its route, in input to output order
SegmentPathForward(k) ==
  LET op == SwapOps[k]
      sub == result.routes[k] IN
  /\ PathTokens(op) = TokenAddresses(sub.path)
  /\ op.method = "exactInput" => PathFees(op) = FeesOf(sub)

SegmentPathReversed(k) ==
  LET op == SwapOps[k]
      sub == result.routes[k] IN
  /\ PathTokens(op) = Reverse(TokenAddresses(sub.path))
  /\ op.method = "exactOutput" => PathFees(op) = Reverse(FeesOf(sub))

\* a mixed trade over at least two recognised pools whose permit step passes
MixedLegCompiled ==
  /\ MixedCompiled /\ Len(pools) >= 2 /\ Recognised(pools) /\ PermitPasses

\* C12 as stated: a mixed leg of an exact-output trade compiles and the path
\* of each segment is reversed, tokens and fees, while for exact input the
\* path is in input to output order.
C12_ExactOutputMixedReversed ==
  MixedLegCompiled =>
    /\ call.tradeType = "EXACT_OUTPUT" =>
         /\ result.err = "none"
         /\ Len(SwapOps) = call.trades * NumSegments
         /\ Len(result.routes) = Len(SwapOps)
         /\ \A k \in 1..Len(SwapOps) : SegmentPathReversed(k)
    /\ (call.tradeType = "EXACT_INPUT" /\ result.err = "none") =>
         \A k \in 1..Len(SwapOps) : SegmentPathForward(k)

\* C12 as amended: a mixed leg of an exact-output trade is rejected with the
\* exact-input-only error and no plan; for exact input every segment that is
\* encoded carries the path of its route in input to output order, tokens
\* and fees or placeholders, never reversed.
C12_MixedLegExactInputOnly ==
  MixedLegCompiled =>
    /\ call.tradeType = "EXACT_OUTPUT" =>
         /\ result.err = ExactInputOnlyError
         /\ result.calldatas = <<>>
    /\ (call.tradeType = "EXACT_INPUT" /\ result.err = "none") =>
         /\ Len(SwapOps) = Len(result.routes)
         /\ Len(SwapOps) >= call.trades
         /\ \A k \in 1..Len(SwapOps) : SegmentPathForward(k)

C12_Witness ==
  /\ MixedLegCompiled /\ call.tradeType = "EXACT_INPUT" /\ result.err = "none"
  /\ Len(pools) = 3 /\ Len(SwapOps) = 2
  /\ SwapOps[1].method = "exactInput" /\ Len(SwapOps[1].path) = 5
  /\ SwapOps[1].path[1] # SwapOps[1].path[5]
  /\ SwapOps[2].method = "swapExactTokensForTokens"

\* ------------------------------------------------------------------------
\* Claims on encodeSwaps
\* ------------------------------------------------------------------------
\* encodeSwaps has returned
SwapsEncoded ==
  /\ pc = "constructed" /\ swapPc = "encoded" /\ swaps.err = "none"

\* the swaps of the trades passed: one per trade
SwapCount == call.trades

AggregatedCheckApplies == call.tradeType = "EXACT_INPUT" /\ SwapCount > 2

\* C13: routerMustCustody is true exactly when the output currency is
\* native, or an output fee is configured, or the call belongs to the
\* swap-and-add flow, or the aggregated slippage check applies.
C13_RouterMustCustody ==
  SwapsEncoded =>
    (swaps.routerMustCustody <=>
       (\/ output.isNative
        \/ call.fee # Undefined
        \/ isSwapAndAdd
        \/ AggregatedCheckApplies))

C13_Witness ==
  /\ SwapsEncoded /\ swaps.routerMustCustody
  /\ ~output.isNative /\ call.fee = Undefined /\ ~isSwapAndAdd
  /\ call.trades = 3

\* C14 as stated: the aggregated slippage check applies exactly when the
\* trade type is exact input and the pools traversed, summed over the legs,
\* are more than two.
C14_AggregatedCheckCountsPools ==
  SwapsEncoded =>
    (swaps.performAggregatedSlippageCheck <=>
       (call.tradeType = "EXACT_INPUT" /\ SwapCount * Len(pools) > 2))

\* C14 as amended: the aggregated slippage check applies exactly when the
\* trade type is exact input and the swaps (legs), each counted once however
\* many pools it traverses, are more than two.
C14_AggregatedCheckCountsSwaps ==
  SwapsEncoded =>
    (swaps.performAggregatedSlippageCheck <=>
       (call.tradeType = "EXACT_INPUT" /\ SwapCount > 2))

C14_Witness ==
  /\ SwapsEncoded /\ swaps.performAggregatedSlippageCheck
  /\ Len(pools) = 1 /\ call.trades = 3

\* the swap operations encodeSwaps returned, in order
EncodedSwapOps == SelectSeq(swaps.calldatas, IsSwapOp)

LegMinimumOut ==
  (call.outputAmount * call.slippageTolerance.den)
    \div (call.slippageTolerance.den + call.slippageTolerance.num)

LegMaximumIn ==
  (call.inputAmount * (call.slippageTolerance.den + call.slippageTolerance.num))
    \div call.slippageTolerance.den

\* C15: every leg of a V2 or V3 trade gives one operation; for exact input
\* its minimum out is 0 when the aggregated check applies and the bounded
\* minimum output of the leg otherwise, and its amount in is the input
\* amount of the leg; for exact output it carries the exact output of the
\* leg and its bounded maximum input, never a zeroed bound.
C15_SingleProtocolAmounts ==
  (SwapsEncoded /\ call.protocol \in {"V2", "V3"}) =>
    /\ Len(EncodedSwapOps) = call.trades
    /\ \A k \in 1..Len(EncodedSwapOps) :
         LET op == EncodedSwapOps[k] IN
         IF call.tradeType = "EXACT_INPUT"
         THEN /\ op.method \in {"swapExactTokensForTokens", "exactInputSingle",
                                 "exactInput"}
              /\ op.amountIn = call.inputAmount
              /\ op.amountOutMinimum =
                   IF AggregatedCheckApplies THEN 0 ELSE LegMinimumOut
              /\ op.amountOutMinimum = 0 <=> AggregatedCheckApplies
         ELSE /\ op.method \in {"swapTokensForExactTokens", "exactOutputSingle",
                                 "exactOutput"}
              /\ op.amountOut = call.outputAmount
              /\ op.amountInMaximum = LegMaximumIn
              /\ op.amountOut # 0 /\ op.amountInMaximum # 0

C15_Witness ==
  /\ SwapsEncoded /\ call.protocol = "V3" /\ Len(pools) = 2
  /\ call.trades = 3 /\ call.tradeType = "EXACT_INPUT"
  /\ EncodedSwapOps[3].amountOutMinimum = 0
  /\ EncodedSwapOps[3].amountIn = 100

\* ------------------------------------------------------------------------
\* Claims on swapCallParameters
\* ------------------------------------------------------------------------
\* swapCallParameters has returned a plan
PlanBuilt == pc = "constructed" /\ swapPc = "done" /\ result.err = "none"

Plan == result.calldatas

PaymentIndexes ==
  {i \in 1..Len(Plan) : Plan[i].method \in {"unwrapWETH9", "sweepToken"}}

LegIndexes == {i \in 1..Len(Plan) : IsSwapOp(Plan[i])}

\* C16: the plan holds one unwrap or sweep operation when the router must
\* take custody and none otherwise; it comes after every leg operation, it
\* is the unwrap when the output is native and else the sweep of the wrapped
\* output token, and it carries the sum of the minimum outputs of the legs,
\* the recipient and the fee of the options.
C16_UnwrapOrSweep ==
  PlanBuilt =>
    /\ Cardinality(PaymentIndexes) = IF CustodyRequired THEN 1 ELSE 0
    /\ result.routerMustCustody <=> CustodyRequired
    /\ \A i \in PaymentIndexes :
         /\ \A k \in LegIndexes : k < i
         /\ Plan[i].method = "unwrapWETH9" <=> output.isNative
         /\ Plan[i].method = "sweepToken" => Plan[i].token = Wrapped(output)
         /\ Plan[i].amountMinimum =
              IF call.tradeType = "EXACT_INPUT"
              THEN call.trades * LegMinimumOut
              ELSE call.trades * call.outputAmount
         /\ Plan[i].recipient = call.recipient
         /\ Plan[i].fee = call.fee

C16_Witness ==
  /\ PlanBuilt /\ ~output.isNative /\ call.trades = 3
  /\ call.tradeType = "EXACT_INPUT" /\ call.slippageTolerance.num = 5
  /\ call.protocol = "MIXED" /\ call.fee = Undefined
  /\ PaymentIndexes = {Len(Plan)} /\ Plan[Len(Plan)].amountMinimum = 195

RefundIndexes == {i \in 1..Len(Plan) : Plan[i].method = "refundETH"}

\* C17: the plan holds a refund operation exactly when the input is native
\* and the trade type is exact output; it is then the last operation, after
\* the leg operations and the unwrap or sweep; the value sent is the sum of
\* the bounded maximum inputs when the input is native and 0 otherwise.
C17_RefundNative ==
  PlanBuilt =>
    /\ RefundIndexes # {} <=> (input.isNative /\ call.tradeType = "EXACT_OUTPUT")
    /\ RefundIndexes \subseteq {Len(Plan)}
    /\ \A i \in RefundIndexes :
         \A k \in LegIndexes \cup PaymentIndexes : k < i
    /\ result.value =
         IF ~input.isNative THEN 0
         ELSE IF call.tradeType = "EXACT_OUTPUT" THEN call.trades * LegMaximumIn
         ELSE call.trades * call.inputAmount

C17_Witness ==
  /\ PlanBuilt /\ input.isNative /\ call.tradeType = "EXACT_OUTPUT"
  /\ call.trades = 2 /\ call.slippageTolerance.num = 5
  /\ PaymentIndexes # {} /\ RefundIndexes = {Len(Plan)}
  /\ result.value = 210

\* swapCallParameters has returned or thrown
Compiled == pc = "constructed" /\ swapPc = "done"

PermitIndexes == {i \in 1..Len(Plan) : Plan[i].method = "selfPermit"}

\* C18: when an input permit is asked for and the input currency is native
\* the compilation fails with NON_TOKEN_PERMIT and returns no plan; when the
\* input is a token the permit is the first operation of the plan, before
\* every swap operation.
C18_InputPermit ==
  (Compiled /\ call.inputTokenPermit # Undefined) =>
    /\ input.isNative =>
         /\ result.err = "NON_TOKEN_PERMIT"
         /\ Plan = <<>>
    /\ (~input.isNative /\ result.err = "none") =>
         /\ PermitIndexes = {1}
         /\ Plan[1].token = input
         /\ \A k \in LegIndexes : 1 < k
         /\ LegIndexes # {}

C18_Witness ==
  /\ Compiled /\ call.inputTokenPermit # Undefined /\ ~input.isNative
  /\ result.err = "none" /\ Plan[1].method = "selfPermit"
  /\ Cardinality(LegIndexes) = 2

\* ------------------------------------------------------------------------
\* Claims on the path encoding
\* ------------------------------------------------------------------------
\* the fee tiers of concentrated-liquidity pools
FeeTiers == {100, 500, 3000, 10000}

PackedTokens(p) == [i \in 1..((Len(p) + 1) \div 2) |-> p[2 * i - 1][2]]

PackedFees(p) == [i \in 1..((Len(p) - 1) \div 2) |-> p[2 * i][2]]

TypesAlternate(p) ==
  \A i \in 1..Len(p) : p[i][1] = IF i % 2 = 1 THEN "address" ELSE "uint24"

\* p is the path of the route for exact input, with the given placeholder
ForwardPath(p, placeholder) ==
  /\ Len(p) = 2 * Len(pools) + 1
  /\ TypesAlternate(p)
  /\ PackedTokens(p)[1] = Wrapped(input).address
  /\ \A i \in 1..Len(pools) :
       /\ PackedTokens(p)[i + 1] =
            RunningToken(pools, Wrapped(input), i).address
       /\ pools[i].kind = "Pool" => PackedFees(p)[i] = pools[i].fee
       /\ pools[i].kind = "Pair" => PackedFees(p)[i] = placeholder
  /\ placeholder \notin FeeTiers

\* out is the reverse of in, tokens and fees
ReversedPath(in, out) ==
  /\ Len(out) = Len(in)
  /\ PackedTokens(out) = Reverse(PackedTokens(in))
  /\ PackedFees(out) = Reverse(PackedFees(in))
  /\ TypesAlternate(out)
  /\ PackedTokens(Reverse(out)) = PackedTokens(in)
  /\ PackedFees(Reverse(out)) = PackedFees(in)
  /\ Reverse(out) = in

\* C19: the path encoded for exact output is the reverse of the path
\* encoded for exact input over the same hops, tokens and fees or
\* placeholders; its element types still alternate address, fee, address
\* and reversing it again gives the exact-input path.
C19_ExactOutputPathReversed ==
  /\ (packed[FALSE] # NotPacked /\ packed[TRUE] # NotPacked) =>
       ReversedPath(packed[FALSE], packed[TRUE])
  /\ (packedParts[FALSE] # NotPacked /\ packedParts[TRUE] # NotPacked) =>
       ReversedPath(packedParts[FALSE], packedParts[TRUE])

C19_Witness ==
  /\ packed[FALSE] # NotPacked /\ packed[TRUE] # NotPacked
  /\ Len(pools) = 3 /\ packed[TRUE] # packed[FALSE]
  /\ PackedFees(packed[TRUE])[1] = V2_FEE_PATH_PLACEHOLDER
  /\ PackedFees(packed[TRUE])[3] = 3000
  /\ input = ETHER

\* C20: the path of a route of n pools encoded for exact input is the
\* alternating sequence token_0, f_0, ..., f_(n-1), token_n of 2n+1 entries
\* that starts at the wrapped input, steps to the complementary token of
\* each pool, and carries the fee tier of a concentrated-liquidity pool and
\* one fixed placeholder, different from every fee tier, for a
\* constant-product pool.
C20_ExactInputPath ==
  /\ packed[FALSE] # NotPacked =>
       ForwardPath(packed[FALSE], V2_FEE_PATH_PLACEHOLDER)
  /\ packedParts[FALSE] # NotPacked => ForwardPath(packedParts[FALSE], 0)

C20_Witness ==
  /\ packed[FALSE] # NotPacked /\ Len(packed[FALSE]) = 7
  /\ input = ETHER
  /\ PackedFees(packed[FALSE])[1] = 3000
  /\ PackedFees(packed[FALSE])[2] = V2_FEE_PATH_PLACEHOLDER
  /\ route.path[3] = pools[3].token1

\* ------------------------------------------------------------------------
\* Claims on the trade
\* ------------------------------------------------------------------------
FromRoutesDone == tradeOp = "fromRoutes" /\ tradePc # "new"

\* legs a and b go through a same pool
SharePool(a, b) ==
  \E x \in 1..Len(legs[a].route.pools), y \in 1..Len(legs[b].route.pools) :
    legs[a].route.pools[x].id = legs[b].route.pools[y].id

SomePoolShared == \E a, b \in 1..Len(legs) : a # b /\ SharePool(a, b)

InputsAgree == \A i \in 1..Len(legs) : legs[i].route.input = legs[1].route.input

OutputsAgree == \A i \in 1..Len(legs) : legs[i].route.output = legs[1].route.output

\* C21: fromRoutes accepts the legs exactly when no pool is in two legs and
\* every leg has the input and the output currency of the first leg. Legs
\* that share a pool fail with POOLS_DUPLICATED in whatever order they come
\* (pools on the same pair of tokens are not the same pool); otherwise legs
\* with another input fail with INPUT_CURRENCY_MATCH, and otherwise legs with
\* another output fail with OUTPUT_CURRENCY_MATCH. A failure gives no trade;
\* a success gives a trade with one swap per leg, in the order of the legs.
C21_FromRoutesChecks ==
  FromRoutesDone =>
    /\ (tradePc = "constructed") <=>
         (~SomePoolShared /\ InputsAgree /\ OutputsAgree)
    /\ SomePoolShared => tradeErr = "POOLS_DUPLICATED"
    /\ (~SomePoolShared /\ ~InputsAgree) => tradeErr = "INPUT_CURRENCY_MATCH"
    /\ (~SomePoolShared /\ InputsAgree /\ ~OutputsAgree) =>
         tradeErr = "OUTPUT_CURRENCY_MATCH"
    /\ tradePc = "threw" => (trade = NoTrade /\ tradeErr # "none")
    /\ tradePc = "constructed" =>
         /\ tradeErr = "none"
         /\ Len(trade.swaps) = Len(legs)
         /\ \A i \in 1..Len(legs) : trade.swaps[i].route = legs[i].route

\* two legs that share pool_1_weth: the second repeats a pool of the first
C21_Witness ==
  /\ FromRoutesDone
  /\ Len(legs) = 2
  /\ legs[1].route = route3v3
  /\ legs[2].route = routev3
  /\ tradeErr = "POOLS_DUPLICATED"

Constructed == tradePc = "constructed"

RECURSIVE SumSeq(_)
SumSeq(q) == IF q = <<>> THEN 0 ELSE Head(q) + SumSeq(Tail(q))

LegInputs == [i \in 1..Len(trade.swaps) |-> trade.swaps[i].inputAmount]

LegOutputs == [i \in 1..Len(trade.swaps) |-> trade.swaps[i].outputAmount]

\* v is num / den rounded down
IsFloor(v, num, den) == v * den <= num /\ num < (v + 1) * den

MinOutGiven == minOut.asked /\ minOut.err = "none"

MaxInGiven == maxIn.asked /\ maxIn.err = "none"

\* C22 as stated: minimumAmountOut of an exact-output trade is the exact
\* output; of an exact-input trade it is the sum over the legs of
\* floor(legOutput / (1 + t)), each leg rounded down on its own.
\* maximumAmountIn of an exact-input trade is the exact input; of an
\* exact-output trade it is the sum over the legs of floor(legInput * (1 + t)).
C22_PerLegTruncation ==
  Constructed =>
    /\ MinOutGiven =>
         minOut.value =
           IF trade.tradeType = "EXACT_OUTPUT" THEN SumSeq(LegOutputs)
           ELSE SumSeq([i \in 1..Len(LegOutputs) |->
                          (LegOutputs[i] * minOut.tol.den)
                            \div (minOut.tol.den + minOut.tol.num)])
    /\ MaxInGiven =>
         maxIn.value =
           IF trade.tradeType = "EXACT_INPUT" THEN SumSeq(LegInputs)
           ELSE SumSeq([i \in 1..Len(LegInputs) |->
                          (LegInputs[i] * (maxIn.tol.den + maxIn.tol.num))
                            \div maxIn.tol.den])

\* C22 amended: minimumAmountOut of an exact-output trade is the exact
\* output; of an exact-input trade it is floor(output / (1 + t)) of the
\* aggregate output, rounded down once. maximumAmountIn of an exact-input
\* trade is the exact input; of an exact-output trade it is
\* floor(input * (1 + t)) of the aggregate input.
C22_AggregateTruncation ==
  Constructed =>
    /\ MinOutGiven =>
         IF trade.tradeType = "EXACT_OUTPUT"
         THEN minOut.value = SumSeq(LegOutputs)
         ELSE IsFloor(minOut.value, SumSeq(LegOutputs) * minOut.tol.den,
                      minOut.tol.den + minOut.tol.num)
    /\ MaxInGiven =>
         IF trade.tradeType = "EXACT_INPUT"
         THEN maxIn.value = SumSeq(LegInputs)
         ELSE IsFloor(maxIn.value,
                      SumSeq(LegInputs) * (maxIn.tol.den + maxIn.tol.num),
                      maxIn.tol.den)

\* two legs whose bounds rounded down one by one give 22, not 23
C22_Witness ==
  /\ Constructed
  /\ trade.tradeType = "EXACT_INPUT"
  /\ LegOutputs = <<35, 34>>
  /\ MinOutGiven
  /\ minOut.tol = Percent(200, 100)
  /\ minOut.value = 23

Priced(tol) == worst[tol] # NotPriced /\ worst[tol].err = "none"

\* the worst price at tol, when it was asked, is out / in
Quoted(tol, in, out) ==
  Priced(tol) => (worst[tol].denominator = in /\ worst[tol].numerator = out)

LegAmounts == [i \in 1..Len(trade.swaps) |-> <<LegInputs[i], LegOutputs[i]>>]

\* the trade of one leg with the amounts of the whole trade
SingleLeg ==
  NewTrade(<<Swap(trade.swaps[1].route, SumSeq(LegInputs), SumSeq(LegOutputs))>>,
           trade.tradeType)

\* C23: the worst price of a trade of several legs is the price of
\* minimumAmountOut(t) in maximumAmountIn(t), and it is the worst price of
\* the trade of one leg with the same aggregate amounts: the exact-input
\* legs 50 to 35 and 50 to 34 give 69/100 at 0%, 65/100 at 5% and 23/100 at
\* 200% as the leg 100 to 69 does, the exact-output legs 78 to 50 twice give
\* 156/100, 163/100 and 468/100 as the leg 156 to 100 does.
C23_MultiLegWorstPrice ==
  Constructed =>
    /\ \A tol \in Tolerances :
         Priced(tol) =>
           /\ (MinOutGiven /\ minOut.tol = tol /\ MaxInGiven /\ maxIn.tol = tol)
                => (/\ worst[tol].denominator = maxIn.value
                    /\ worst[tol].numerator = minOut.value)
           /\ worst[tol] = WorstExecutionPrice(SingleLeg, tol)
    /\ (/\ trade.tradeType = "EXACT_INPUT"
        /\ LegAmounts \in {<<<<50, 35>>, <<50, 34>>>>, <<<<100, 69>>>>})
         => /\ Quoted(Percent(0, 100), 100, 69)
            /\ Quoted(Percent(5, 100), 100, 65)
            /\ Quoted(Percent(200, 100), 100, 23)
    /\ (/\ trade.tradeType = "EXACT_OUTPUT"
        /\ LegAmounts \in {<<<<78, 50>>, <<78, 50>>>>, <<<<156, 100>>>>})
         => /\ Quoted(Percent(0, 100), 156, 100)
            /\ Quoted(Percent(5, 100), 163, 100)
            /\ Quoted(Percent(200, 100), 468, 100)

C23_Witness ==
  /\ Constructed
  /\ trade.tradeType = "EXACT_INPUT"
  /\ LegAmounts = <<<<50, 35>>, <<50, 34>>>>
  /\ Priced(Percent(200, 100))
  /\ worst[Percent(200, 100)].numerator = 23
  /\ MinOutGiven /\ minOut.tol = Percent(200, 100)
  /\ MaxInGiven /\ maxIn.tol = Percent(200, 100)

\* tolerance a is at most tolerance b
AtMost(a, b) == a.num * b.den <= b.num * a.den

\* C24: the worst price at tolerance 0 is the execution price; between two
\* tolerances 0 <= t1 <= t2 the worst price, read as output over input, does
\* not grow for an exact-input trade, and read as input over output does not
\* shrink for an exact-output trade.
C24_WorstPriceMonotone ==
  Constructed =>
    /\ (Priced(Percent(0, 100)) /\ executionPrice # NotPriced)
         => worst[Percent(0, 100)] = executionPrice
    /\ \A t1, t2 \in Tolerances :
         (/\ AtMost(Percent(0, 100), t1) /\ AtMost(t1, t2)
          /\ Priced(t1) /\ Priced(t2))
           => IF trade.tradeType = "EXACT_INPUT"
              THEN worst[t2].numerator * worst[t1].denominator
                     <= worst[t1].numerator * worst[t2].denominator
              ELSE worst[t2].denominator * worst[t1].numerator
                     >= worst[t1].denominator * worst[t2].numerator

C24_Witness ==
  /\ Constructed
  /\ trade.tradeType = "EXACT_OUTPUT"
  /\ executionPrice # NotPriced
  /\ Priced(Percent(0, 100))
  /\ Priced(Percent(200, 100))
  /\ worst[Percent(200, 100)].denominator > worst[Percent(0, 100)].denominator

\* C25: at a tolerance below 0, worstExecutionPrice and minimumAmountOut
\* fail with SLIPPAGE_TOLERANCE, whatever the trade type, and give no value;
\* at a tolerance of 0 or more they do not fail.
C25_NegativeTolerance ==
  Constructed =>
    /\ \A tol \in Tolerances :
         worst[tol] # NotPriced =>
           IF tol.num < 0
           THEN worst[tol] = PriceError("SLIPPAGE_TOLERANCE")
           ELSE worst[tol].err = "none"
    /\ minOut.asked =>
         IF minOut.tol.num < 0
         THEN minOut.err = "SLIPPAGE_TOLERANCE" /\ minOut.value = 0
         ELSE minOut.err = "none"

C25_Witness ==
  /\ Constructed
  /\ trade.tradeType = "EXACT_OUTPUT"
  /\ worst[Percent(0 - 1, 100)] = PriceError("SLIPPAGE_TOLERANCE")
  /\ minOut.asked
  /\ minOut.tol = Percent(0 - 1, 100)
  /\ minOut.err = "SLIPPAGE_TOLERANCE"

\* ------------------------------------------------------------------------
\* Claims on encodeRemoveAndSwap
\* ------------------------------------------------------------------------
RemoveEncoded == removePc # "idle" /\ removed.err = "none"

RemoveInput == removeTrades[1].inputCurrency.currency

\* the amount the position holds of the currency the trades take in
PositionAmountOfInput ==
  IF Equals(RemoveInput, position.pool.token0.currency) THEN position.amount0
  ELSE position.amount1

RemoveInputs == [i \in 1..Len(removeTrades) |-> removeTrades[i].inputAmount]

\* C26: when the validations pass, swapToken0 is true exactly when the input
\* currency of the trades is token0 of the pool of the position by chain and
\* address, and false exactly when it is token1, whichever object holds the
\* currency; the amount of the position compared with the total of the swaps
\* is the amount of that token.
C26_SwapToken0ByValue ==
  RemoveEncoded =>
    /\ removed.swapToken0 <=> Equals(RemoveInput, position.pool.token0.currency)
    /\ ~removed.swapToken0 <=> Equals(RemoveInput, position.pool.token1.currency)
    /\ SumSeq(RemoveInputs) <= PositionAmountOfInput
    /\ removed.swapEntireAmount <=> SumSeq(RemoveInputs) = PositionAmountOfInput

\* C27: encodeRemoveAndSwap leaves its arguments as they were passed,
\* options.slippageTolerance among them, whether it returns or fails, and a
\* second call with the same arguments gives the same result.
C27_ArgumentsUnchanged ==
  /\ removePc # "idle" => options = passedOptions
  /\ removePc = "again" => removedAgain = removed

\* C28: the token path of every route that was constructed ends at the
\* wrapped output currency.
C28_PathEndsAtOutput ==
  pc = "constructed" => route.path[Len(route.path)] = Wrapped(output)

\* the validations before the comparison with the position passed
RemoveCompared ==
  removePc # "idle" /\ removed.err \in {"none", "EXCESSIVE_SWAP"}

RemoveEntries ==
  removed.v2ExactInputs \o removed.v3ExactInputSingles \o removed.v3ExactInputs

IsV2Trade(t) == t.kind = "V2"

IsV3SingleTrade(t) == t.kind = "V3" /\ Len(t.route.pools) = 1

IsV3PathTrade(t) == t.kind = "V3" /\ Len(t.route.pools) > 1

\* the trades in the order of their entries
RemoveTradesByEntry ==
  SelectSeq(removeTrades, IsV2Trade) \o SelectSeq(removeTrades, IsV3SingleTrade)
    \o SelectSeq(removeTrades, IsV3PathTrade)

\* C29: with swaps of inputs a_1..a_n and total T > 0, each amountInBips is
\* floor(10000 * a_i / T), the bips sum to at most 10000 and at least
\* 10000 - (n - 1); the call fails with EXCESSIVE_SWAP and encodes nothing
\* whenever T is more than the amount the position holds of the swapped
\* token, and swapEntireAmount is true exactly when T is that amount.
C29_BipsAndExcess ==
  RemoveCompared =>
    LET T == SumSeq(RemoveInputs)
        n == Len(removeTrades)
        bips == [i \in 1..Len(RemoveEntries) |-> RemoveEntries[i].amountInBips] IN
    IF T > PositionAmountOfInput
    THEN removed.err = "EXCESSIVE_SWAP" /\ RemoveEntries = <<>>
    ELSE /\ removed.err = "none"
         /\ removed.swapEntireAmount <=> T = PositionAmountOfInput
         /\ Len(RemoveEntries) = n
         /\ \A i \in 1..n :
              IsFloor(bips[i], 10000 * RemoveTradesByEntry[i].inputAmount, T)
         /\ SumSeq(bips) <= 10000
         /\ SumSeq(bips) >= 10000 - (n - 1)

\* ------------------------------------------------------------------------
\* Claims on the plan of single-protocol legs
\* ------------------------------------------------------------------------
SingleProtocolPlan == PlanBuilt /\ call.protocol \in {"V2", "V3"}

\* the bound of a leg was replaced by 0
ZeroedLeg(op) ==
  /\ call.tradeType = "EXACT_INPUT"
  /\ op.amountOutMinimum = 0
  /\ LegMinimumOut > 0

\* C30: in a plan of V2 or V3 legs every leg names ADDRESS_THIS as recipient
\* exactly when routerMustCustody is true, and else the recipient of the
\* options or MSG_SENDER when there is none; whenever the minimum out of a
\* leg is zeroed, routerMustCustody is true and after the legs comes an
\* unwrap or sweep whose minimum is the sum of the bounded minimum outputs of
\* the legs; an exact-input plan without it bounds every leg.
C30_CustodyAndSlippage ==
  SingleProtocolPlan =>
    /\ Len(SwapOps) = call.trades
    /\ \A k \in 1..Len(SwapOps) :
         /\ SwapOps[k].recipient = ADDRESS_THIS <=> result.routerMustCustody
         /\ ~result.routerMustCustody => SwapOps[k].recipient = TrueRecipient
    /\ (\E k \in 1..Len(SwapOps) : ZeroedLeg(SwapOps[k])) =>
         /\ result.routerMustCustody
         /\ \E i \in PaymentIndexes :
              /\ \A k \in LegIndexes : k < i
              /\ Plan[i].amountMinimum = call.trades * LegMinimumOut
    /\ (call.tradeType = "EXACT_INPUT" /\ PaymentIndexes = {}) =>
         \A k \in 1..Len(SwapOps) : SwapOps[k].amountOutMinimum = LegMinimumOut

C30_Witness ==
  /\ SingleProtocolPlan
  /\ call.protocol = "V2"
  /\ call.tradeType = "EXACT_INPUT"
  /\ call.trades = 3
  /\ call.fee = Undefined
  /\ ~output.isNative
  /\ ZeroedLeg(SwapOps[1])
  /\ SwapOps[1].recipient = ADDRESS_THIS

====
